---- MODULE Spec2Model ----
(***************************************************************************)
(* A model of resume_importer.py (class ResumeImporter and main).          *)
(*                                                                         *)
(* Text is a sequence of characters, each character a one-character        *)
(* string; the four non-ASCII characters the source names are written as   *)
(* their code points ("U+2022" is the bullet).  The regular expressions of *)
(* the source are written as syntax trees and run by Match, a backtracking *)
(* matcher with the semantics of Python's re module (leftmost match,       *)
(* alternatives in order, greedy and lazy repetition).                     *)
(***************************************************************************)
EXTENDS Integers, Sequences, FiniteSets, TLC

(***************************************************************************)
(* Characters.                                                             *)
(***************************************************************************)
Bullet == "U+2022"
BlackCircle == "U+25CF"
EnDash == "U+2013"
EmDash == "U+2014"

UpperSeq == <<"A","B","C","D","E","F","G","H","I","J","K","L","M",
              "N","O","P","Q","R","S","T","U","V","W","X","Y","Z">>
LowerSeq == <<"a","b","c","d","e","f","g","h","i","j","k","l","m",
              "n","o","p","q","r","s","t","u","v","w","x","y","z">>
Upper == {UpperSeq[k] : k \in 1..26}
Lower == {LowerSeq[k] : k \in 1..26}
Digit == {"0","1","2","3","4","5","6","7","8","9"}
Space == {" ", "\n", "\t", "\r"}
WordCh == Upper \cup Lower \cup Digit \cup {"_"}

\* a letter in its two cases
CasePairs == {{UpperSeq[k], LowerSeq[k]} : k \in 1..26}

\* str.lower() and str.upper() on one character
LowerOf == [c \in Upper |-> LowerSeq[CHOOSE k \in 1..26 : UpperSeq[k] = c]]
UpperOf == [c \in Lower |-> UpperSeq[CHOOSE k \in 1..26 : LowerSeq[k] = c]]
ToLower(c) == IF c \in Upper THEN LowerOf[c] ELSE c
ToUpper(c) == IF c \in Lower THEN UpperOf[c] ELSE c

\* str.lower() and str.upper()
lower(s) == [k \in 1..Len(s) |-> ToLower(s[k])]
upper(s) == [k \in 1..Len(s) |-> ToUpper(s[k])]

\* s[a:b] of Python for 1-based a and exclusive b
Slice(s, a, b) == IF b <= a THEN <<>> ELSE SubSeq(s, a, b - 1)

RECURSIVE Flatten(_)
Flatten(ss) == IF ss = <<>> THEN <<>> ELSE Head(ss) \o Flatten(Tail(ss))

\* sep.join(parts)
RECURSIVE join(_, _)
join(sep, parts) ==
    IF parts = <<>> THEN <<>>
    ELSE IF Len(parts) = 1 THEN parts[1]
    ELSE parts[1] \o sep \o join(sep, Tail(parts))

\* str.strip()
RECURSIVE lstrip(_)
lstrip(s) == IF s # <<>> /\ Head(s) \in Space THEN lstrip(Tail(s)) ELSE s
RECURSIVE rstrip(_)
rstrip(s) == IF s # <<>> /\ s[Len(s)] \in Space THEN rstrip(SubSeq(s, 1, Len(s) - 1)) ELSE s
strip(s) == rstrip(lstrip(s))

\* str.split(sep) for a one-character separator
RECURSIVE split(_, _)
split(s, sep) ==
    IF \E k \in 1..Len(s) : s[k] = sep
    THEN LET k == CHOOSE j \in 1..Len(s) : s[j] = sep /\ \A h \in 1..(j-1) : s[h] # sep
         IN <<SubSeq(s, 1, k - 1)>> \o split(SubSeq(s, k + 1, Len(s)), sep)
    ELSE <<s>>

\* needle in haystack (Python's substring test)
Contains(hay, needle) ==
    \E a \in 1..(Len(hay) - Len(needle) + 1) : SubSeq(hay, a, a + Len(needle) - 1) = needle

(***************************************************************************)
(* Regular expressions: syntax trees.                                      *)
(***************************************************************************)
Inf == 0 - 1
Set(cs) == [t |-> "set", cs |-> cs, neg |-> FALSE]
NotSet(cs) == [t |-> "set", cs |-> cs, neg |-> TRUE]
Ch(c) == Set({c})
Lit(w) == [t |-> "seq", xs |-> [k \in 1..Len(w) |-> Ch(w[k])]]
Cat(xs) == [t |-> "seq", xs |-> xs]
Alt(xs) == [t |-> "alt", xs |-> xs]
Rep(x, lo, hi) == [t |-> "rep", x |-> x, min |-> lo, max |-> hi, greedy |-> TRUE, cnt |-> 0, at |-> 0]
LazyRep(x, lo, hi) == [t |-> "rep", x |-> x, min |-> lo, max |-> hi, greedy |-> FALSE, cnt |-> 0, at |-> 0]
Opt(x) == Rep(x, 0, 1)
Star(x) == Rep(x, 0, Inf)
Plus(x) == Rep(x, 1, Inf)
Grp(g, x) == [t |-> "grp", g |-> g, x |-> x]
Bol == [t |-> "bol"]
Eol == [t |-> "eol"]
Eos == [t |-> "eos"]
WordB == [t |-> "wordb"]
Look(x) == [t |-> "look", x |-> x]
Dot == [t |-> "dot"]

\* the flags of a call: re.IGNORECASE, re.MULTILINE, re.DOTALL
NoFlags == [i |-> FALSE, m |-> FALSE, s |-> FALSE]
IgnoreCase == [i |-> TRUE, m |-> FALSE, s |-> FALSE]
MultiLine == [i |-> FALSE, m |-> TRUE, s |-> FALSE]
DotAll == [i |-> FALSE, m |-> FALSE, s |-> TRUE]

NoCaps == [g \in 1..3 |-> <<0, 0>>]
Fail == [ok |-> FALSE, a |-> 0, e |-> 0, c |-> NoCaps]

\* whether the set node n matches ch: under re.IGNORECASE a letter also matches in
\* its other case
InSet(ch, n, fl) ==
    (\/ ch \in n.cs
     \/ fl.i /\ \E pair \in CasePairs : ch \in pair /\ pair \cap n.cs # {}) # n.neg

\* whether the one-character node x (a set or the dot) matches ch
OneChar(x, ch, fl) == IF x.t = "dot" THEN fl.s \/ ch # "\n" ELSE InSet(ch, x, fl)

\* the end of the longest run of characters from position j on that x matches
RECURSIVE RunEnd(_, _, _, _)
RunEnd(x, s, j, fl) ==
    IF j <= Len(s) /\ OneChar(x, s[j], fl) THEN RunEnd(x, s, j + 1, fl) ELSE j

(***************************************************************************)
(* Match(k, s, i, c, fl): match the nodes of k one after the other from    *)
(* position i of s; c holds the groups captured so far.  k is the          *)
(* matcher's continuation, so a failure further on makes an earlier        *)
(* repetition or alternative try its next choice: a greedy repetition      *)
(* takes the longest run after which the rest matches, a lazy one the      *)
(* shortest, an alternation its first alternative after which the rest     *)
(* matches.                                                                *)
(***************************************************************************)
RECURSIVE Match(_, _, _, _, _), Ends(_, _, _, _, _, _, _), OrNext(_, _, _, _, _, _, _, _)
\* the match of k at the first of the positions j, j + step, ... up to stop that has one
Ends(k, s, j, stop, step, c, fl) ==
    IF (step > 0 /\ j > stop) \/ (step < 0 /\ j < stop) THEN Fail
    ELSE OrNext(Match(k, s, j, c, fl), k, s, j, stop, step, c, fl)

\* m, the match of k at position j, if it is one, and else the match at a later position
OrNext(m, k, s, j, stop, step, c, fl) ==
    IF m.ok THEN m ELSE Ends(k, s, j + step, stop, step, c, fl)

\* a run of single characters that ends at run: the first end of it, from the longest
\* (greedy) or from the shortest (lazy), after which the rest r matches
Span(n, r, s, i, run, c, fl) ==
    IF n.greedy
    THEN Ends(r, s, IF n.max = Inf \/ i + n.max > run THEN run ELSE i + n.max,
              i + n.min, 0 - 1, c, fl)
    ELSE Ends(r, s, i + n.min,
              IF n.max = Inf \/ i + n.max > run THEN run ELSE i + n.max, 1, c, fl)

Match(k, s, i, c, fl) ==
    IF k = <<>> THEN [ok |-> TRUE, a |-> 0, e |-> i, c |-> c]
    ELSE
    LET n == Head(k)
        r == Tail(k)
    IN CASE n.t = "set" ->
              IF i <= Len(s) /\ InSet(s[i], n, fl) THEN Match(r, s, i + 1, c, fl) ELSE Fail
         [] n.t = "dot" ->
              IF i <= Len(s) /\ (fl.s \/ s[i] # "\n") THEN Match(r, s, i + 1, c, fl) ELSE Fail
         [] n.t = "seq" -> Match(n.xs \o r, s, i, c, fl)
         [] n.t = "alt" ->
              IF n.xs = <<>> THEN Fail
              ELSE LET first == Match(<<Head(n.xs)>> \o r, s, i, c, fl)
                   IN IF first.ok THEN first
                      ELSE Match(<<Alt(Tail(n.xs))>> \o r, s, i, c, fl)
         [] n.t = "rep" /\ n.x.t \in {"set", "dot"} ->
              \* a repeated single character: the run it can take
              Span(n, r, s, i, RunEnd(n.x, s, i, fl), c, fl)
         [] n.t = "rep" /\ n.x.t \notin {"set", "dot"} ->
              LET canMore == /\ (n.max = Inf \/ n.cnt < n.max)
                             /\ ~(n.cnt > 0 /\ n.at = i)
                  more == Match(<<n.x, [n EXCEPT !.cnt = @ + 1, !.at = i]>> \o r, s, i, c, fl)
                  stop == IF n.cnt >= n.min THEN Match(r, s, i, c, fl) ELSE Fail
              IN IF n.greedy
                 THEN IF canMore /\ more.ok THEN more ELSE stop
                 ELSE IF stop.ok THEN stop ELSE IF canMore THEN more ELSE Fail
         [] n.t = "grp" -> Match(<<n.x, [t |-> "close", g |-> n.g, a |-> i]>> \o r, s, i, c, fl)
         [] n.t = "close" -> Match(r, s, i, [c EXCEPT ![n.g] = <<n.a, i>>], fl)
         [] n.t = "bol" ->
              IF i = 1 \/ (fl.m /\ s[i - 1] = "\n") THEN Match(r, s, i, c, fl) ELSE Fail
         [] n.t = "eol" ->
              IF \/ i = Len(s) + 1
                 \/ (i = Len(s) /\ s[i] = "\n")
                 \/ (fl.m /\ i <= Len(s) /\ s[i] = "\n")
              THEN Match(r, s, i, c, fl) ELSE Fail
         [] n.t = "eos" -> IF i = Len(s) + 1 THEN Match(r, s, i, c, fl) ELSE Fail
         [] n.t = "wordb" ->
              LET before == i > 1 /\ s[i - 1] \in WordCh
                  after == i <= Len(s) /\ s[i] \in WordCh
              IN IF before # after THEN Match(r, s, i, c, fl) ELSE Fail
         [] n.t = "look" ->
              LET m == Match(<<n.x>>, s, i, c, fl)
              IN IF m.ok THEN Match(r, s, i, m.c, fl) ELSE Fail

\* the match of re that starts at position p of s, if there is one
MatchAt(re, s, p, fl) == [Match(<<re>>, s, p, NoCaps, fl) EXCEPT !.a = p]

\* re.match(re, s): a match at the start of s
match(re, s, fl) == MatchAt(re, s, 1, fl)

\* re.search(re, s): the match at the leftmost position that has one
search(re, s, fl) ==
    LET found(p) == MatchAt(re, s, p, fl).ok
    IN IF \E p \in 1..(Len(s) + 1) : found(p)
       THEN MatchAt(re, s, CHOOSE p \in 1..(Len(s) + 1) :
                                 found(p) /\ \A q \in 1..(p - 1) : ~found(q), fl)
       ELSE Fail

\* re.finditer(re, s): the non-overlapping matches from left to right, each the
\* leftmost match that starts at or after the end of the one before
RECURSIVE FindFrom(_, _)
FindFrom(ms, p) ==
    LET later == {m \in ms : m.a >= p}
    IN IF later = {} THEN <<>>
       ELSE LET m == CHOOSE x \in later : \A y \in later : x.a <= y.a
            IN <<m>> \o FindFrom(ms, IF m.e > m.a THEN m.e ELSE m.e + 1)
finditer(re, s, fl) ==
    FindFrom({m \in {MatchAt(re, s, p, fl) : p \in 1..(Len(s) + 1)} : m.ok}, 1)

\* match.group(g), match.group(0)
group(s, m, g) == Slice(s, m.c[g][1], m.c[g][2])
group0(s, m) == Slice(s, m.a, m.e)

\* re.findall(re, s) for a pattern with one group, or with none (g = 0)
Groups(ms, s, g) ==
    [k \in 1..Len(ms) |-> IF g = 0 THEN group0(s, ms[k]) ELSE group(s, ms[k], g)]
findall(re, s, g, fl) == Groups(finditer(re, s, fl), s, g)

\* re.split(re, s) for a pattern without groups
RECURSIVE SplitAt(_, _, _, _)
SplitAt(ms, s, k, p) ==
    IF k > Len(ms) THEN <<Slice(s, p, Len(s) + 1)>>
    ELSE <<Slice(s, p, ms[k].a)>> \o SplitAt(ms, s, k + 1, ms[k].e)
resplit(re, s, fl) == SplitAt(finditer(re, s, fl), s, 1, 1)

\* re.sub(re, template, s); template is a sequence of texts [lit |-> w] and
\* group references [g |-> n]
RECURSIVE Expand(_, _, _)
Expand(tpl, s, m) ==
    IF tpl = <<>> THEN <<>>
    ELSE (IF "g" \in DOMAIN Head(tpl) THEN group(s, m, Head(tpl).g) ELSE Head(tpl).lit)
         \o Expand(Tail(tpl), s, m)
RECURSIVE SubAt(_, _, _, _, _)
SubAt(ms, tpl, s, k, p) ==
    IF k > Len(ms) THEN Slice(s, p, Len(s) + 1)
    ELSE Slice(s, p, ms[k].a) \o Expand(tpl, s, ms[k]) \o SubAt(ms, tpl, s, k + 1, ms[k].e)
sub(re, tpl, s, fl) == SubAt(finditer(re, s, fl), tpl, s, 1, 1)

(***************************************************************************)
(* ResumeImporter: the pure parts.                                         *)
(***************************************************************************)
Letter == Upper \cup Lower
Alnum == Letter \cup Digit

\* _create_empty_template
create_empty_template ==
    [basics |-> [name |-> <<>>, label |-> <<>>, image |-> <<>>, email |-> <<>>,
                 phone |-> <<>>, url |-> <<>>, summary |-> <<>>,
                 location |-> [address |-> <<>>, postalCode |-> <<>>, city |-> <<>>,
                               countryCode |-> <<>>, region |-> <<>>],
                 profiles |-> <<>>],
     work |-> <<>>, volunteer |-> <<>>, education |-> <<>>, awards |-> <<>>,
     certificates |-> <<>>, publications |-> <<>>, skills |-> <<>>, languages |-> <<>>,
     interests |-> <<>>, references |-> <<>>, projects |-> <<>>]

\* _format_linkedin_date
year_month(date_str, parts) ==
    IF Len(parts) = 3 THEN parts[3] \o <<"-">> \o parts[1]
    ELSE IF Len(parts) = 2 THEN parts[2] \o <<"-">> \o parts[1]
    ELSE date_str

\* the date of the export kept in its own notation
linkedin_date_as_given(date_str) == date_str

format_linkedin_date(date_str) ==
    IF date_str = <<>> THEN <<>> ELSE year_month(date_str, split(date_str, "/"))

\* _extract_keywords_from_text: tech_patterns
tech_patterns ==
    << Alt(<<Lit(<<"p","y","t","h","o","n">>), Lit(<<"j","a","v","a">>), Lit(<<"j","a","v","a","s","c","r","i","p","t">>), Lit(<<"t","y","p","e","s","c","r","i","p","t">>), Lit(<<"h","t","m","l">>), Lit(<<"c","s","s">>), Lit(<<"c","+","+">>),
             Lit(<<"r","u","b","y">>), Lit(<<"p","h","p">>), Lit(<<"s","w","i","f","t">>), Lit(<<"k","o","t","l","i","n">>), Lit(<<"g","o">>), Lit(<<"r","u","s","t">>), Lit(<<"s","c","a","l","a">>), Lit(<<"s","q","l">>)>>),
       Alt(<<Lit(<<"r","e","a","c","t">>), Lit(<<"a","n","g","u","l","a","r">>), Lit(<<"v","u","e">>), Lit(<<"n","o","d","e">>), Lit(<<"e","x","p","r","e","s","s">>), Lit(<<"d","j","a","n","g","o">>), Lit(<<"f","l","a","s","k">>),
             Lit(<<"s","p","r","i","n","g">>), Lit(<<"l","a","r","a","v","e","l">>), Lit(<<"r","a","i","l","s">>)>>),
       Alt(<<Lit(<<"a","w","s">>), Lit(<<"a","z","u","r","e">>), Lit(<<"g","c","p">>), Lit(<<"d","o","c","k","e","r">>), Lit(<<"k","u","b","e","r","n","e","t","e","s">>), Lit(<<"t","e","r","r","a","f","o","r","m">>), Lit(<<"j","e","n","k","i","n","s">>),
             Lit(<<"g","i","t">>), Lit(<<"c","i","/","c","d">>)>>),
       Alt(<<Lit(<<"m","a","c","h","i","n","e"," ","l","e","a","r","n","i","n","g">>), Lit(<<"m","l">>), Lit(<<"a","i">>), Lit(<<"d","a","t","a"," ","s","c","i","e","n","c","e">>), Lit(<<"n","l","p">>),
             Lit(<<"c","o","m","p","u","t","e","r"," ","v","i","s","i","o","n">>)>>),
       Alt(<<Lit(<<"a","g","i","l","e">>), Lit(<<"s","c","r","u","m">>), Lit(<<"k","a","n","b","a","n">>), Lit(<<"w","a","t","e","r","f","a","l","l">>), Lit(<<"l","e","a","d","e","r","s","h","i","p">>), Lit(<<"t","e","a","m","w","o","r","k">>),
             Lit(<<"c","o","m","m","u","n","i","c","a","t","i","o","n">>)>> ) >>

\* the elements of a list
Elements(q) == {q[k] : k \in 1..Len(q)}

\* _extract_keywords_from_text; list(set(keywords)) has no defined order, so the
\* result is the set
extract_keywords_from_text(text) ==
    IF text = <<>> THEN {}
    ELSE UNION { Elements(findall(tech_patterns[p], lower(text), 0, NoFlags)) :
                 p \in 1..Len(tech_patterns) }

\* _categorize_skill: categories, in the order of the dict
categories ==
    << [category |-> "Programming Languages",
        keywords |-> <<<<"p","y","t","h","o","n">>, <<"j","a","v","a">>, <<"j","a","v","a","s","c","r","i","p","t">>, <<"c","+","+">>, <<"c","#">>, <<"r","u","b","y">>, <<"p","h","p">>,
                       <<"s","w","i","f","t">>, <<"k","o","t","l","i","n">>, <<"g","o">>, <<"r","u","s","t">>, <<"s","c","a","l","a">>>>],
       [category |-> "Web Development",
        keywords |-> <<<<"h","t","m","l">>, <<"c","s","s">>, <<"r","e","a","c","t">>, <<"a","n","g","u","l","a","r">>, <<"v","u","e">>, <<"n","o","d","e">>, <<"e","x","p","r","e","s","s">>,
                       <<"d","j","a","n","g","o">>, <<"f","l","a","s","k">>>>],
       [category |-> "Data Science",
        keywords |-> <<<<"m","a","c","h","i","n","e"," ","l","e","a","r","n","i","n","g">>, <<"d","a","t","a"," ","a","n","a","l","y","s","i","s">>, <<"s","t","a","t","i","s","t","i","c","s">>, <<"j","u","p","y","t","e","r">>,
                       <<"p","a","n","d","a","s">>, <<"n","u","m","p","y">>, <<"t","e","n","s","o","r","f","l","o","w">>, <<"p","y","t","o","r","c","h">>, <<"a","i">>>>],
       [category |-> "DevOps & Cloud",
        keywords |-> <<<<"a","w","s">>, <<"a","z","u","r","e">>, <<"g","c","p">>, <<"d","o","c","k","e","r">>, <<"k","u","b","e","r","n","e","t","e","s">>, <<"j","e","n","k","i","n","s">>,
                       <<"c","i","/","c","d">>, <<"t","e","r","r","a","f","o","r","m">>>>],
       [category |-> "Databases",
        keywords |-> <<<<"s","q","l">>, <<"n","o","s","q","l">>, <<"m","o","n","g","o","d","b">>, <<"p","o","s","t","g","r","e","s","q","l">>, <<"m","y","s","q","l">>, <<"f","i","r","e","b","a","s","e">>,
                       <<"r","e","d","i","s">>>>],
       [category |-> "Mobile Development",
        keywords |-> <<<<"a","n","d","r","o","i","d">>, <<"i","o","s">>, <<"f","l","u","t","t","e","r">>, <<"r","e","a","c","t"," ","n","a","t","i","v","e">>, <<"s","w","i","f","t">>,
                       <<"k","o","t","l","i","n">>>>],
       [category |-> "Soft Skills",
        keywords |-> <<<<"l","e","a","d","e","r","s","h","i","p">>, <<"t","e","a","m","w","o","r","k">>, <<"c","o","m","m","u","n","i","c","a","t","i","o","n">>, <<"p","r","o","b","l","e","m"," ","s","o","l","v","i","n","g">>,
                       <<"p","r","o","j","e","c","t"," ","m","a","n","a","g","e","m","e","n","t">>>>] >>

\* any(keyword in skill_lower for keyword in keywords)
AnyKeywordIn(keywords, skill_lower) ==
    \E k \in 1..Len(keywords) : Contains(skill_lower, keywords[k])

\* the loop of _categorize_skill from category number c on
RECURSIVE CategorizeFrom(_, _)
CategorizeFrom(c, skill_lower) ==
    IF c > Len(categories) THEN "Other Skills"
    ELSE IF AnyKeywordIn(categories[c].keywords, skill_lower) THEN categories[c].category
    ELSE CategorizeFrom(c + 1, skill_lower)

\* _categorize_skill without skill_lower = skill_name.lower(): the name is compared
\* as it is written
categorize_as_written(skill_name) == CategorizeFrom(1, skill_name)

\* _categorize_skill
categorize_skill(skill_name) == CategorizeFrom(1, lower(skill_name))

\* _extract_bullet_points: [bullet, -, *] \s* ([^ bullet - * \n]+)
BulletRe == Cat(<<Set({Bullet, "-", "*"}), Star(Set(Space)),
                  Grp(1, Plus(NotSet({Bullet, "-", "*", "\n"})))>>)
extract_bullet_points(text) ==
    LET bullet_points == findall(BulletRe, text, 1, NoFlags)
        stripped == [k \in 1..Len(bullet_points) |-> strip(bullet_points[k])]
    IN SelectSeq(stripped, LAMBDA point : point # <<>>)

(***************************************************************************)
(* _post_process_text                                                      *)
(***************************************************************************)
\* ([a-zA-Z0-9_.+-]+)at([a-zA-Z0-9-]+\.[a-zA-Z0-9-.]+)
MergedEmailRe ==
    Cat(<<Grp(1, Plus(Set(Alnum \cup {"_",".","+","-"}))), Lit(<<"a","t">>),
          Grp(2, Cat(<<Plus(Set(Alnum \cup {"-"})), Ch("."), Plus(Set(Alnum \cup {"-","."}))>>))>>)
\* ([0-9]{3})[\s\n]+([0-9]{3})[\s\n]+([0-9]{4})
BrokenPhoneRe ==
    Cat(<<Grp(1, Rep(Set(Digit), 3, 3)), Plus(Set(Space)), Grp(2, Rep(Set(Digit), 3, 3)),
          Plus(Set(Space)), Grp(3, Rep(Set(Digit), 4, 4))>>)
\* ([^\n])([A-Z]{5,})
GluedHeaderRe == Cat(<<Grp(1, NotSet({"\n"})), Grp(2, Rep(Set(Upper), 5, Inf))>>)
NormalizedSections == <<<<"E","D","U","C","A","T","I","O","N">>, <<"E","X","P","E","R","I","E","N","C","E">>, <<"S","K","I","L","L","S">>, <<"P","R","O","J","E","C","T","S">>>>

\* step 3: for section in [...]: re.sub(section.lower(), section.upper(), text, IGNORECASE)
RECURSIVE NormalizeHeaders(_, _)
NormalizeHeaders(sections, text) ==
    IF sections = <<>> THEN text
    ELSE NormalizeHeaders(Tail(sections),
             sub(Lit(lower(Head(sections))), <<[lit |-> upper(Head(sections))]>>, text,
                 IgnoreCase))

\* the normalisation without the repair of phone numbers
post_process_keeping_phone(text) ==
    LET t1 == sub(MergedEmailRe, <<[g |-> 1], [lit |-> <<"@">>], [g |-> 2]>>, text, NoFlags)
        t3 == NormalizeHeaders(NormalizedSections, t1)
    IN sub(GluedHeaderRe, <<[g |-> 1], [lit |-> <<"\n","\n">>], [g |-> 2]>>, t3, NoFlags)

post_process_text(text) ==
    LET t1 == sub(MergedEmailRe, <<[g |-> 1], [lit |-> <<"@">>], [g |-> 2]>>, text, NoFlags)
        t2 == sub(BrokenPhoneRe, <<[g |-> 1], [lit |-> <<"-">>], [g |-> 2], [lit |-> <<"-">>],
                                   [g |-> 3]>>, t1, NoFlags)
        t3 == NormalizeHeaders(NormalizedSections, t2)
    IN sub(GluedHeaderRe, <<[g |-> 1], [lit |-> <<"\n","\n">>], [g |-> 2]>>, t3, NoFlags)

(***************************************************************************)
(* _extract_personal_info and _extract_contact_info                        *)
(***************************************************************************)
\* [A-Z][a-z]+(?:\s+[A-Z][a-z]+){1,3}
CapWords == Cat(<<Set(Upper), Plus(Set(Lower)),
                  Rep(Cat(<<Plus(Set(Space)), Set(Upper), Plus(Set(Lower))>>), 1, 3)>>)
\* ^[A-Z][a-z]+(?:\s+[A-Z][a-z]+){1,3}$
NameLineRe == Cat(<<Bol, CapWords, Eol>>)
\* (?:Name|NAME):\s*([A-Z][a-z]+(?:\s+[A-Z][a-z]+){1,3})
NamePrefixRe == Cat(<<Alt(<<Lit(<<"N","a","m","e">>), Lit(<<"N","A","M","E">>)>>), Ch(":"), Star(Set(Space)), Grp(1, CapWords)>>)
FirstLinesCount == 7
MaxNameLen == 40

\* text.strip().split('\n')[:7]
first_lines(text) ==
    LET lines == split(strip(text), "\n")
    IN SubSeq(lines, 1, IF Len(lines) < FirstLinesCount THEN Len(lines) ELSE FirstLinesCount)

\* approach 1: the first of the first lines that looks like a name, <<>> if none
RECURSIVE NameFromLines(_)
NameFromLines(lines) ==
    IF lines = <<>> THEN <<>>
    ELSE LET line == strip(Head(lines))
         IN IF match(NameLineRe, line, NoFlags).ok /\ Len(line) < MaxNameLen THEN line
            ELSE NameFromLines(Tail(lines))

\* what _extract_personal_info reads in the text: the name line of approach 1
\* (<<>> if none) and the match of approach 2 (<<>> or <<the name>>)
personal_info_in(text) ==
    LET name_match == search(NamePrefixRe, text, NoFlags)
    IN [line |-> NameFromLines(first_lines(text)),
        prefixed |-> IF name_match.ok THEN <<group(text, name_match, 1)>> ELSE <<>>]

\* _extract_personal_info: the name in basics after the call, given the one before
extract_personal_info(name, found) ==
    LET name1 == IF found.line # <<>> THEN found.line ELSE name
    IN IF name1 = <<>> /\ found.prefixed # <<>> THEN found.prefixed[1] ELSE name1

\* \b[A-Za-z0-9._%+-]+@[A-Za-z0-9.-]+\.[A-Z|a-z]{2,}\b
email_pattern ==
    Cat(<<WordB, Plus(Set(Alnum \cup {".","_","%","+","-"})), Ch("@"), Plus(Set(Alnum \cup {".","-"})),
          Ch("."), Rep(Set(Letter \cup {"|"}), 2, Inf), WordB>>)

D3 == Rep(Set(Digit), 3, 3)
D4 == Rep(Set(Digit), 4, 4)
phone_patterns ==
    << \* (?:\+\d{1,2}\s)?\(?\d{3}\)?[\s.-]?\d{3}[\s.-]?\d{4}
       Cat(<<Opt(Cat(<<Ch("+"), Rep(Set(Digit), 1, 2), Set(Space)>>)), Opt(Ch("(")), D3,
             Opt(Ch(")")), Opt(Set(Space \cup {".","-"})), D3, Opt(Set(Space \cup {".","-"})), D4>>),
       \* \+\d{1,2}\s\d{3}\s\d{3}\s\d{4}
       Cat(<<Ch("+"), Rep(Set(Digit), 1, 2), Set(Space), D3, Set(Space), D3, Set(Space), D4>>),
       \* \d{3}[-\.\s]??\d{3}[-\.\s]??\d{4}
       Cat(<<D3, LazyRep(Set(Space \cup {".","-"}), 0, 1), D3,
             LazyRep(Set(Space \cup {".","-"}), 0, 1), D4>>),
       \* \(\d{3}\)\s*\d{3}[-\.\s]??\d{4}
       Cat(<<Ch("("), D3, Ch(")"), Star(Set(Space)), D3,
             LazyRep(Set(Space \cup {".","-"}), 0, 1), D4>>) >>
linkedin_patterns ==
    << Cat(<<Lit(<<"l","i","n","k","e","d","i","n">>), Ch("."), Lit(<<"c","o","m","/","i","n","/">>), Plus(Set(WordCh \cup {"-"}))>>),
       Cat(<<Lit(<<"l","i","n","k","e","d","i","n">>), Ch("."), Lit(<<"c","o","m","/","p","r","o","f","i","l","e","/">>), Plus(Set(WordCh \cup {"-"}))>>) >>

\* "for pattern in patterns: matches = re.findall(pattern, text); if matches: ...
\* break": the first match of the first pattern that has one, <<>> if none has
RECURSIVE FirstFound(_, _, _)
FirstFound(patterns, text, fl) ==
    IF patterns = <<>> THEN <<>>
    ELSE LET matches == findall(Head(patterns), text, 0, fl)
         IN IF matches # <<>> THEN <<matches[1]>> ELSE FirstFound(Tail(patterns), text, fl)

StartsWith(s, w) == Len(s) >= Len(w) /\ SubSeq(s, 1, Len(w)) = w
Last(q) == q[Len(q)]

\* what _extract_contact_info reads in the text: the matches used for the email,
\* the phone and the LinkedIn profile, each <<>> or <<the first match>>
contact_info_in(text) ==
    LET email_matches == findall(email_pattern, text, 0, NoFlags)
    IN [email |-> IF email_matches # <<>> THEN <<email_matches[1]>> ELSE <<>>,
        phone |-> FirstFound(phone_patterns, text, NoFlags),
        linkedin |-> FirstFound(linkedin_patterns, text, IgnoreCase)]

\* _extract_contact_info: basics after the call
extract_contact_info(basics, found) ==
    LET b1 == IF found.email # <<>> THEN [basics EXCEPT !.email = found.email[1]] ELSE basics
        b2 == IF found.phone # <<>> THEN [b1 EXCEPT !.phone = found.phone[1]] ELSE b1
        url == IF StartsWith(found.linkedin[1], <<"h","t","t","p">>) THEN found.linkedin[1]
               ELSE <<"h","t","t","p","s",":","/","/">> \o found.linkedin[1]
    IN IF found.linkedin # <<>>
       THEN [b2 EXCEPT !.profiles = Append(@, [network |-> <<"L","i","n","k","e","d","I","n">>, url |-> url,
                                               username |-> Last(split(url, "/"))])]
       ELSE b2

(***************************************************************************)
(* The section extractors.  Each gives the entries the method appends.     *)
(***************************************************************************)
\* \n\s*\n
BlankLineRe == Cat(<<Ch("\n"), Star(Set(Space)), Ch("\n")>>)
\* the entries of a section: re.split(r'\n\s*\n', text), less those that are blank
entries_of(text) == SelectSeq(resplit(BlankLineRe, text, NoFlags), LAMBDA e : strip(e) # <<>>)

Month == Cat(<<Alt(<<Lit(<<"J","a","n">>), Lit(<<"F","e","b">>), Lit(<<"M","a","r">>), Lit(<<"A","p","r">>), Lit(<<"M","a","y">>), Lit(<<"J","u","n">>), Lit(<<"J","u","l">>), Lit(<<"A","u","g">>), Lit(<<"S","e","p">>),
                     Lit(<<"O","c","t">>), Lit(<<"N","o","v">>), Lit(<<"D","e","c">>)>>), Star(Set(Lower)), Opt(Ch(".")),
               Plus(Set(Space)), D4>>)
Dash == Cat(<<Star(Set(Space)), Set({"-", EnDash}), Star(Set(Space))>>)
date_patterns ==
    << \* (Mon[a-z]*\.?\s+\d{4})\s*[-en-dash]\s*(Mon[a-z]*\.?\s+\d{4}|Present|Current)
       Cat(<<Grp(1, Month), Dash, Grp(2, Alt(<<Month, Lit(<<"P","r","e","s","e","n","t">>), Lit(<<"C","u","r","r","e","n","t">>)>>))>>),
       \* (\d{1,2}/\d{4})\s*[-en-dash]\s*(\d{1,2}/\d{4}|Present|Current)
       Cat(<<Grp(1, Cat(<<Rep(Set(Digit), 1, 2), Ch("/"), D4>>)), Dash,
             Grp(2, Alt(<<Cat(<<Rep(Set(Digit), 1, 2), Ch("/"), D4>>), Lit(<<"P","r","e","s","e","n","t">>),
                          Lit(<<"C","u","r","r","e","n","t">>)>>))>>),
       \* (\d{4})\s*[-en-dash]\s*(\d{4}|Present|Current)
       Cat(<<Grp(1, D4), Dash, Grp(2, Alt(<<D4, Lit(<<"P","r","e","s","e","n","t">>), Lit(<<"C","u","r","r","e","n","t">>)>>))>>) >>

\* "for pattern in date_patterns: date_match = re.search(pattern, entry,
\* re.IGNORECASE); if date_match: ... break"
RECURSIVE dates_of(_, _)
dates_of(patterns, entry) ==
    IF patterns = <<>> THEN [matched |-> FALSE, start_date |-> <<>>, end_date |-> <<>>]
    ELSE LET date_match == search(Head(patterns), entry, IgnoreCase)
         IN IF date_match.ok
            THEN [matched |-> TRUE, start_date |-> group(entry, date_match, 1),
                  end_date |-> group(entry, date_match, 2)]
            ELSE dates_of(Tail(patterns), entry)

\* ^([A-Z][A-Za-z\s,]+)(?:[-en-dash|]|at|\n)
WorkTitleRe == Cat(<<Bol, Grp(1, Cat(<<Set(Upper), Plus(Set(Letter \cup Space \cup {","}))>>)),
                     Alt(<<Set({"-", EnDash, "|"}), Lit(<<"a","t">>), Ch("\n")>>)>>)
\* (?:at|with|for)?\s*([A-Z][A-Za-z0-9\s&,.]+)
company_pattern ==
    Cat(<<Opt(Alt(<<Lit(<<"a","t">>), Lit(<<"w","i","t","h">>), Lit(<<"f","o","r">>)>>)), Star(Set(Space)),
          Grp(1, Cat(<<Set(Upper), Plus(Set(Alnum \cup Space \cup {"&",",","."}))>>))>>)
\* {company_pattern}.*?(?=\n\n|\Z)
DescriptionRe == Cat(<<company_pattern, LazyRep(Dot, 0, Inf), Look(Alt(<<Lit(<<"\n","\n">>), Eos>>))>>)

\* one entry of _extract_work_experience
work_entry(entry) ==
    LET title_match == search(WorkTitleRe, entry, MultiLine)
        title == IF title_match.ok THEN strip(group(entry, title_match, 1)) ELSE <<>>
        rest == Slice(entry, IF title_match.ok THEN title_match.e ELSE 1, Len(entry) + 1)
        company_match == search(company_pattern, rest, NoFlags)
        company == IF company_match.ok THEN strip(group(rest, company_match, 1)) ELSE <<>>
        dates == dates_of(date_patterns, entry)
        description_match == search(DescriptionRe, entry, DotAll)
        description == IF description_match.ok THEN strip(group0(entry, description_match))
                       ELSE <<>>
    IN [keep |-> title # <<>> \/ company # <<>>,
        item |-> [name |-> company, position |-> title, startDate |-> dates.start_date,
                  endDate |-> dates.end_date, summary |-> description,
                  highlights |-> extract_bullet_points(description), url |-> <<>>,
                  keywords |-> extract_keywords_from_text(description)]]

\* the items of the entries that are kept
Kept(es) == LET kept == SelectSeq(es, LAMBDA e : e.keep) IN [k \in 1..Len(kept) |-> kept[k].item]

\* _extract_work_experience: the work items appended
extract_work_experience(text) ==
    LET entries == entries_of(text) IN Kept([k \in 1..Len(entries) |-> work_entry(entries[k])])

\* ([A-Z][A-Za-z\s&,]+(?:University|College|Institute|School)) and
\* ((?:University|College|Institute|School)\s+of\s+[A-Z][A-Za-z\s&,]+)
SchoolWord == Alt(<<Lit(<<"U","n","i","v","e","r","s","i","t","y">>), Lit(<<"C","o","l","l","e","g","e">>), Lit(<<"I","n","s","t","i","t","u","t","e">>), Lit(<<"S","c","h","o","o","l">>)>>)
institution_patterns ==
    << Grp(1, Cat(<<Set(Upper), Plus(Set(Letter \cup Space \cup {"&",","})), SchoolWord>>)),
       Grp(1, Cat(<<SchoolWord, Plus(Set(Space)), Lit(<<"o","f">>), Plus(Set(Space)), Set(Upper),
                    Plus(Set(Letter \cup Space \cup {"&",","}))>>)) >>
\* (?:Bachelor|Master|Ph\.?D|Doctor|Associate)(?:\'s|s)?\s+(?:of|in|degree\s+in)?\s+([A-Za-z\s&,]+)
degree_pattern ==
    Cat(<<Alt(<<Lit(<<"B","a","c","h","e","l","o","r">>), Lit(<<"M","a","s","t","e","r">>), Cat(<<Lit(<<"P","h">>), Opt(Ch(".")), Lit(<<"D">>)>>), Lit(<<"D","o","c","t","o","r">>),
                Lit(<<"A","s","s","o","c","i","a","t","e">>)>>),
          Opt(Alt(<<Lit(<<"'","s">>), Lit(<<"s">>)>>)), Plus(Set(Space)),
          Opt(Alt(<<Lit(<<"o","f">>), Lit(<<"i","n">>), Cat(<<Lit(<<"d","e","g","r","e","e">>), Plus(Set(Space)), Lit(<<"i","n">>)>>)>>)),
          Plus(Set(Space)), Grp(1, Plus(Set(Letter \cup Space \cup {"&",","})))>>)
\* GPA:?\s*([\d\.]+)
GpaRe == Cat(<<Lit(<<"G","P","A">>), Opt(Ch(":")), Star(Set(Space)), Grp(1, Plus(Set(Digit \cup {"."})))>>)

\* "for pattern in institution_patterns: inst_match = re.search(pattern, entry);
\* if inst_match: ... break"
RECURSIVE institution_of(_, _)
institution_of(patterns, entry) ==
    IF patterns = <<>> THEN <<>>
    ELSE LET inst_match == search(Head(patterns), entry, NoFlags)
         IN IF inst_match.ok THEN strip(group(entry, inst_match, 1))
            ELSE institution_of(Tail(patterns), entry)

\* one entry of _extract_education
education_entry(entry) ==
    LET institution == institution_of(institution_patterns, entry)
        degree_match == search(degree_pattern, entry, IgnoreCase)
        study_type == IF degree_match.ok THEN strip(group0(entry, degree_match)) ELSE <<>>
        area == IF degree_match.ok THEN strip(group(entry, degree_match, 1)) ELSE <<>>
        dates == dates_of(date_patterns, entry)
        gpa_match == search(GpaRe, entry, IgnoreCase)
        score == IF gpa_match.ok THEN group(entry, gpa_match, 1) ELSE <<>>
    IN [keep |-> institution # <<>> \/ study_type # <<>>,
        item |-> [institution |-> institution, area |-> area, studyType |-> study_type,
                  startDate |-> dates.start_date, endDate |-> dates.end_date,
                  score |-> score, courses |-> extract_bullet_points(entry)]]

\* _extract_education: the education items appended
extract_education(text) ==
    LET entries == entries_of(text)
    IN Kept([k \in 1..Len(entries) |-> education_entry(entries[k])])

\* ,|\n
CommaOrNewlineRe == Alt(<<Ch(","), Ch("\n")>>)

\* [s.strip() for s in re.split(r',|\n', skill_text) if s.strip()]
skills_in(skill_text) ==
    LET parts == resplit(CommaOrNewlineRe, skill_text, NoFlags)
        stripped == [k \in 1..Len(parts) |-> strip(parts[k])]
    IN SelectSeq(stripped, LAMBDA s : s # <<>>)

\* the dict skill_categories after the skills from number k on are added: a sequence
\* of [name, keywords] in the order the categories were first met
\* skill_categories[category].append(skill)
append_skill(skill_categories, category, skill) ==
    [j \in 1..Len(skill_categories) |->
        IF skill_categories[j].name = category
        THEN [skill_categories[j] EXCEPT !.keywords = Append(@, skill)]
        ELSE skill_categories[j]]

\* "if category not in skill_categories: skill_categories[category] = []", then the
\* append
add_skill(skill_categories, category, skill) ==
    append_skill(IF \E j \in 1..Len(skill_categories) : skill_categories[j].name = category
                 THEN skill_categories
                 ELSE Append(skill_categories, [name |-> category, keywords |-> <<>>]),
                 category, skill)

RECURSIVE group_skills(_, _, _)
group_skills(all_skills, k, skill_categories) ==
    IF k > Len(all_skills) THEN skill_categories
    ELSE group_skills(all_skills, k + 1,
             add_skill(skill_categories, categorize_skill(all_skills[k]), all_skills[k]))

\* _extract_skills: the skill items appended
extract_skills(text) ==
    LET found == findall(BulletRe, text, 1, NoFlags)
        skill_lists == IF found = <<>> THEN <<text>> ELSE found
        all_skills == Flatten([k \in 1..Len(skill_lists) |-> skills_in(skill_lists[k])])
        skill_categories == group_skills(all_skills, 1, <<>>)
    IN [k \in 1..Len(skill_categories) |->
           [name |-> skill_categories[k].name, level |-> <<>>,
            keywords |-> skill_categories[k].keywords]]

\* ^([A-Z][A-Za-z0-9\s&,.:-]+)
ProjectTitleRe == Cat(<<Bol, Grp(1, Cat(<<Set(Upper), Plus(Set(Alnum \cup Space \cup {"&",",",".",":","-"}))>>))>>)

\* one entry of _extract_projects
project_entry(entry) ==
    LET title_match == search(ProjectTitleRe, entry, MultiLine)
        project_name == IF title_match.ok THEN strip(group(entry, title_match, 1)) ELSE <<>>
        dates == dates_of(date_patterns, entry)
        description == IF title_match.ok
                       THEN strip(Slice(entry, title_match.e, Len(entry) + 1))
                       ELSE strip(entry)
    IN [keep |-> project_name # <<>>,
        item |-> [name |-> project_name, description |-> description,
                  startDate |-> dates.start_date, endDate |-> dates.end_date, url |-> <<>>,
                  highlights |-> extract_bullet_points(description),
                  keywords |-> extract_keywords_from_text(description)]]

\* _extract_projects: the project items appended
extract_projects(text) ==
    LET entries == entries_of(text)
    IN Kept([k \in 1..Len(entries) |-> project_entry(entries[k])])

\* (?:issued|awarded|certified)\s+by\s+([A-Za-z\s&,.]+)
IssuerRe == Cat(<<Alt(<<Lit(<<"i","s","s","u","e","d">>), Lit(<<"a","w","a","r","d","e","d">>), Lit(<<"c","e","r","t","i","f","i","e","d">>)>>), Plus(Set(Space)), Lit(<<"b","y">>),
                  Plus(Set(Space)), Grp(1, Plus(Set(Letter \cup Space \cup {"&",",","."})))>>)
\* (?:issued|awarded|completed|earned)\s+(?:on|in)\s+(\w+\s+\d{4}|\d{2}/\d{4}|\d{4})
CertDateRe ==
    Cat(<<Alt(<<Lit(<<"i","s","s","u","e","d">>), Lit(<<"a","w","a","r","d","e","d">>), Lit(<<"c","o","m","p","l","e","t","e","d">>), Lit(<<"e","a","r","n","e","d">>)>>), Plus(Set(Space)),
          Alt(<<Lit(<<"o","n">>), Lit(<<"i","n">>)>>), Plus(Set(Space)),
          Grp(1, Alt(<<Cat(<<Plus(Set(WordCh)), Plus(Set(Space)), D4>>),
                       Cat(<<Rep(Set(Digit), 2, 2), Ch("/"), D4>>), D4>>))>>)

\* one entry of _extract_certifications
certification_entry(entry) ==
    LET cert_name == strip(split(entry, "\n")[1])
        issuer_match == search(IssuerRe, entry, IgnoreCase)
        issuer == IF issuer_match.ok THEN strip(group(entry, issuer_match, 1)) ELSE <<>>
        date_match == search(CertDateRe, entry, IgnoreCase)
        date == IF date_match.ok THEN group(entry, date_match, 1) ELSE <<>>
    IN [keep |-> cert_name # <<>>,
        item |-> [name |-> cert_name, date |-> date, issuer |-> issuer, url |-> <<>>,
                  keywords |-> extract_keywords_from_text(entry)]]

\* _extract_certifications: the certificate items appended
extract_certifications(text) ==
    LET entries == entries_of(text)
    IN Kept([k \in 1..Len(entries) |-> certification_entry(entries[k])])

\* ([A-Z][a-z]+(?:\s+[A-Z][a-z]+)?)\s*[:-]?\s*(Native|Fluent|Professional|Intermediate|Basic|Beginner|Advanced)?
LanguageRe ==
    Cat(<<Grp(1, Cat(<<Set(Upper), Plus(Set(Lower)),
                       Opt(Cat(<<Plus(Set(Space)), Set(Upper), Plus(Set(Lower))>>))>>)),
          Star(Set(Space)), Opt(Set({":","-"})), Star(Set(Space)),
          Opt(Grp(2, Alt(<<Lit(<<"N","a","t","i","v","e">>), Lit(<<"F","l","u","e","n","t">>), Lit(<<"P","r","o","f","e","s","s","i","o","n","a","l">>), Lit(<<"I","n","t","e","r","m","e","d","i","a","t","e">>), Lit(<<"B","a","s","i","c">>),
                           Lit(<<"B","e","g","i","n","n","e","r">>), Lit(<<"A","d","v","a","n","c","e","d">>)>>)))>>)

\* _extract_languages: the language items appended
extract_languages(text) ==
    LET language_entries == finditer(LanguageRe, text, NoFlags)
        items == [k \in 1..Len(language_entries) |->
                     LET language == group(text, language_entries[k], 1)
                         fluency == group(text, language_entries[k], 2)
                     IN [language |-> strip(language),
                         fluency |-> IF fluency # <<>> THEN strip(fluency) ELSE <<"F","l","u","e","n","t">>]]
    IN SelectSeq(items, LAMBDA it : it.language # <<>>)

(***************************************************************************)
(* _parse_resume_text: the section segmenter                               *)
(***************************************************************************)
section_patterns ==
    << \* (WORK|PROFESSIONAL|EMPLOYMENT)\s?(EXPERIENCE|HISTORY)
       Cat(<<Alt(<<Lit(<<"W","O","R","K">>), Lit(<<"P","R","O","F","E","S","S","I","O","N","A","L">>), Lit(<<"E","M","P","L","O","Y","M","E","N","T">>)>>), Opt(Set(Space)),
             Alt(<<Lit(<<"E","X","P","E","R","I","E","N","C","E">>), Lit(<<"H","I","S","T","O","R","Y">>)>>)>>),
       Lit(<<"E","D","U","C","A","T","I","O","N">>),
       Lit(<<"S","K","I","L","L","S">>),
       Cat(<<Lit(<<"P","R","O","J","E","C","T">>), Opt(Ch("S"))>>),
       Cat(<<Lit(<<"C","E","R","T","I","F","I","C","A","T","I","O","N">>), Opt(Ch("S"))>>),
       Cat(<<Lit(<<"L","A","N","G","U","A","G","E">>), Opt(Ch("S"))>>),
       \* (VOLUNTEER|COMMUNITY)\s?(EXPERIENCE|WORK|SERVICE)
       Cat(<<Alt(<<Lit(<<"V","O","L","U","N","T","E","E","R">>), Lit(<<"C","O","M","M","U","N","I","T","Y">>)>>), Opt(Set(Space)),
             Alt(<<Lit(<<"E","X","P","E","R","I","E","N","C","E">>), Lit(<<"W","O","R","K">>), Lit(<<"S","E","R","V","I","C","E">>)>>)>>),
       Cat(<<Lit(<<"P","U","B","L","I","C","A","T","I","O","N">>), Opt(Ch("S"))>>),
       Lit(<<"A","W","A","R","D","S">>),
       Lit(<<"I","N","T","E","R","E","S","T","S">>) >>
\* '|'.join(f'({p})' for p in section_patterns)
combined_pattern == Alt(section_patterns)
\* (?:^|\n)({combined_pattern})(?::|\n|$)
SectionRe == Cat(<<Alt(<<Bol, Ch("\n")>>), Grp(1, combined_pattern),
                   Alt(<<Ch(":"), Ch("\n"), Eol>>)>>)
\* \n([A-Z][A-Z\s]{2,}:?)\s*\n
LooseSectionRe ==
    Cat(<<Ch("\n"), Grp(1, Cat(<<Set(Upper), Rep(Set(Upper \cup Space), 2, Inf), Opt(Ch(":"))>>)),
          Star(Set(Space)), Ch("\n")>>)

\* "if not section_matches and self.debug": whether the looser pattern is tried
\* after the combined pattern has found the matches standard
fallback_tried(standard, dbg) == standard = <<>> /\ dbg

\* section_matches: the header matches _parse_resume_text works with
section_matches(text, dbg) ==
    LET standard == finditer(SectionRe, text, IgnoreCase)
    IN IF fallback_tried(standard, dbg) THEN finditer(LooseSectionRe, text, NoFlags)
       ELSE standard

\* sections[section_name] = section_content on a dict kept as a sequence of
\* [name, content] in insertion order: a key that is there keeps its place and
\* takes the new value
dict_set(d, name, content) ==
    IF \E j \in 1..Len(d) : d[j].name = name
    THEN [j \in 1..Len(d) |-> IF d[j].name = name THEN [d[j] EXCEPT !.content = content]
                              ELSE d[j]]
    ELSE Append(d, [name |-> name, content |-> content])

\* the loop "for i, match in enumerate(section_matches)" from match number i on
RECURSIVE sections_from(_, _, _, _)
sections_from(ms, text, i, sections) ==
    IF i > Len(ms) THEN sections
    ELSE LET section_name == upper(group(text, ms[i], 1))
             start_idx == ms[i].e
             end_idx == IF i + 1 <= Len(ms) THEN ms[i + 1].a ELSE Len(text) + 1
             section_content == strip(Slice(text, start_idx, end_idx))
         IN sections_from(ms, text, i + 1, dict_set(sections, section_name, section_content))

\* a segmentation that hands a text without header matches to the skills
\* extractor as one section
sections_or_whole_text(text, dbg) ==
    IF section_matches(text, dbg) = <<>> /\ strip(text) # <<>>
    THEN <<[name |-> <<"S","K","I","L","L","S">>, content |-> strip(text)]>>
    ELSE sections_from(section_matches(text, dbg), text, 1, <<>>)

\* the dict sections of _parse_resume_text
sections_of(text, dbg) == sections_from(section_matches(text, dbg), text, 1, <<>>)

\* the if/elif chain that picks a section's extractor: the key of resume_data the
\* extractor appends to, "" when the section has no extractor
extractor_of(section_name) ==
    IF \E w \in {<<"W","O","R","K">>, <<"E","X","P","E","R","I","E","N","C","E">>, <<"E","M","P","L","O","Y","M","E","N","T">>, <<"P","R","O","F","E","S","S","I","O","N","A","L">>} :
           Contains(section_name, w) THEN "work"
    ELSE IF Contains(section_name, <<"E","D","U","C","A","T","I","O","N">>) THEN "education"
    ELSE IF Contains(section_name, <<"S","K","I","L","L","S">>) THEN "skills"
    ELSE IF Contains(section_name, <<"P","R","O","J","E","C","T">>) THEN "projects"
    ELSE IF Contains(section_name, <<"C","E","R","T","I","F">>) THEN "certificates"
    ELSE IF Contains(section_name, <<"L","A","N","G","U","A","G","E">>) THEN "languages"
    ELSE ""

\* the items the extractor of a key appends for a section's content
extract(key, content) ==
    CASE key = "work" -> extract_work_experience(content)
      [] key = "education" -> extract_education(content)
      [] key = "skills" -> extract_skills(content)
      [] key = "projects" -> extract_projects(content)
      [] key = "certificates" -> extract_certifications(content)
      [] key = "languages" -> extract_languages(content)

extractor_name ==
    [work |-> "_extract_work_experience", education |-> "_extract_education",
     skills |-> "_extract_skills", projects |-> "_extract_projects",
     certificates |-> "_extract_certifications", languages |-> "_extract_languages"]

(***************************************************************************)
(* The oracle (the transformers library).  What it answers is the          *)
(* environment's choice: o.import_ok says whether "from transformers       *)
(* import pipeline" succeeds, o.ner is "raises" or names the entities the  *)
(* recogniser returns, o.label and o.score (in hundredths) are the         *)
(* classifier's first label and its score, o.label = "raises" a            *)
(* classifier that throws.                                                 *)
(***************************************************************************)
Entities ==
    [none |-> <<>>,
     person |-> <<[entity |-> "I-PER", word |-> <<"J","a","n","e">>], [entity |-> "I-PER", word |-> <<"D","o","e">>],
                  [entity |-> "I-LOC", word |-> <<"P","a","r","i","s">>]>>,
     job |-> <<[entity |-> "I-ORG", word |-> <<"A","c","m","e">>],
               [entity |-> "I-MISC", word |-> <<"E","n","g","i","n","e","e","r">>],
               [entity |-> "I-DATE", word |-> <<"2","0","2","0">>],
               [entity |-> "I-ORG", word |-> <<"T","e","c","h"," ","U","n","i","v","e","r","s","i","t","y">>],
               [entity |-> "I-MISC", word |-> <<"M","a","s","t","e","r">>]>>]

\* the last entity of the sequence whose entity type and word pass the test, <<>> if none
RECURSIVE last_word(_, _, _)
last_word(entities, type, words) ==
    IF entities = <<>> THEN <<>>
    ELSE LET e == entities[Len(entities)]
         IN IF e.entity = type /\ (words = {} \/ \E w \in words : Contains(lower(e.word), w))
            THEN e.word
            ELSE last_word(SubSeq(entities, 1, Len(entities) - 1), type, words)

\* _process_education_with_transformers: the education items appended
education_item(institution, degree, date) ==
    IF institution # <<>> \/ degree # <<>>
    THEN <<[institution |-> institution, area |-> <<>>, studyType |-> degree,
            startDate |-> date, endDate |-> <<>>, score |-> <<>>, courses |-> <<>>]>>
    ELSE <<>>
process_education_with_transformers(entities) ==
    education_item(last_word(entities, "I-ORG", {<<"u","n","i","v","e","r","s","i","t","y">>}),
                   last_word(entities, "I-MISC", {<<"b","a","c","h","e","l","o","r">>, <<"m","a","s","t","e","r">>, <<"p","h","d">>}),
                   last_word(entities, "I-DATE", {}))

\* _process_work_with_transformers: the work items appended
work_item(company, position, date, paragraph) ==
    IF company # <<>> \/ position # <<>>
    THEN <<[name |-> company, position |-> position, startDate |-> date,
            endDate |-> <<>>, summary |-> paragraph, highlights |-> <<>>, url |-> <<>>,
            keywords |-> {}]>>
    ELSE <<>>
process_work_with_transformers(entities, paragraph) ==
    work_item(last_word(entities, "I-ORG", {}),
              last_word(entities, "I-MISC", {<<"e","n","g","i","n","e","e","r">>, <<"m","a","n","a","g","e","r">>, <<"d","e","v","e","l","o","p","e","r">>}),
              last_word(entities, "I-DATE", {}), paragraph)

MinParagraphLen == 50
ScoreThreshold == 70

\* [p for p in re.split(r'\n\s*\n', text) if p.strip() and len(p) > 50]
paragraphs_of(text) ==
    SelectSeq(resplit(BlankLineRe, text, NoFlags),
              LAMBDA p : strip(p) # <<>> /\ Len(p) > MinParagraphLen)

\* resume_data[key] = items: the items take the place of those the key holds
assign_all(rd, key, items) ==
    IF items = <<>> THEN [rd |-> rd, raised |-> FALSE]
    ELSE IF key \notin DOMAIN rd THEN [rd |-> rd, raised |-> TRUE]
    ELSE [rd |-> [rd EXCEPT ![key] = items], raised |-> FALSE]

\* resume_data[key].append(item) for each item: raised says that an append met
\* a KeyError (resume_data has no such key)
append_all(rd, key, items) ==
    IF items = <<>> THEN [rd |-> rd, raised |-> FALSE]
    ELSE IF key \notin DOMAIN rd THEN [rd |-> rd, raised |-> TRUE]
    ELSE [rd |-> [rd EXCEPT ![key] = @ \o items], raised |-> FALSE]

\* step 2 of _extract_with_transformers, the loop over the paragraphs from number
\* k on; an exception ends the loop (the except clause around it)
RECURSIVE classify_from(_, _, _, _), classified(_, _, _, _, _)
classify_from(rd, paragraphs, k, o) ==
    IF k > Len(paragraphs) \/ o.label = "raises" THEN rd
    ELSE IF o.score > ScoreThreshold /\ o.label \in {"education", "work experience"}
    THEN IF o.ner = "raises" THEN rd
         ELSE classified(rd, IF o.label = "education"
                             THEN append_all(rd, "education",
                                      process_education_with_transformers(Entities[o.ner]))
                             ELSE append_all(rd, "work",
                                      process_work_with_transformers(Entities[o.ner],
                                                                     paragraphs[k])),
                         paragraphs, k, o)
    ELSE classify_from(rd, paragraphs, k + 1, o)

\* the loop after the items of paragraph k were appended, which gave r
classified(rd, r, paragraphs, k, o) ==
    IF r.raised THEN rd ELSE classify_from(r.rd, paragraphs, k + 1, o)

\* " ".join(words of the I-PER entities)
RECURSIVE person_words(_)
person_words(entities) ==
    IF entities = <<>> THEN <<>>
    ELSE (IF Head(entities).entity = "I-PER" THEN <<Head(entities).word>> ELSE <<>>)
         \o person_words(Tail(entities))

\* step 1 of _extract_with_transformers: the name is set from the I-PER entities if
\* it is not set yet; a KeyError when there is no basics is caught
named(rd, name_parts) ==
    IF name_parts # <<>> /\ "basics" \in DOMAIN rd /\ rd.basics.name = <<>>
    THEN [rd EXCEPT !.basics.name = join(<<" ">>, name_parts)]
    ELSE rd

\* _extract_with_transformers; paragraphs are those of the text
extract_with_transformers(rd, paragraphs, o) ==
    IF ~o.import_ok THEN [rd |-> rd, success |-> FALSE]
    ELSE [rd |-> classify_from(
                     named(rd, IF o.ner = "raises" THEN <<>>
                               ELSE person_words(Entities[o.ner])),
                     paragraphs, 1, o),
          success |-> TRUE]

(***************************************************************************)
(* _parse_resume_text.  What the method computes from the text alone is    *)
(* gathered in a reading of the text, so that it is computed once for a    *)
(* document; the method then writes the reading into resume_data.          *)
(***************************************************************************)
\* the dict sections, each section with the key its extractor appends to ("" if
\* it has no extractor) and the items the extractor makes of its content
extracted_sections(text, dbg) ==
    LET sections == sections_of(text, dbg)
        Items(k) == LET key == extractor_of(sections[k].name)
                    IN [name |-> sections[k].name, key |-> key,
                        items |-> IF key = "" THEN <<>>
                                  ELSE <<>> \o extract(key, sections[k].content)]
    IN IF sections = <<>> THEN <<>> ELSE <<Items(1)>> \o [k \in 1..(Len(sections) - 1) |-> Items(k + 1)]

\* the reading of a text
reading(text, dbg) ==
    [personal |-> personal_info_in(text),
     contact |-> contact_info_in(text),
     sections |-> extracted_sections(text, dbg),
     paragraphs |-> <<>> \o paragraphs_of(text)]

\* the loop "for section_name, content in sections.items()" from section k on
RECURSIVE process_sections(_, _, _, _), section_done(_, _, _, _, _)
process_sections(rd, sections, k, calls) ==
    IF k > Len(sections) THEN [rd |-> rd, raised |-> FALSE, calls |-> calls]
    ELSE IF sections[k].key = "" THEN process_sections(rd, sections, k + 1, calls)
    ELSE section_done(rd, append_all(rd, sections[k].key, sections[k].items), sections, k,
                   Append(calls, extractor_name[sections[k].key]))

\* the loop after the extractor of section k was called, which gave r
section_done(rd, r, sections, k, calls) ==
    IF r.raised THEN [rd |-> rd, raised |-> TRUE, calls |-> calls]
    ELSE process_sections(r.rd, sections, k + 1, calls)

\* the regex pipeline: _parse_resume_text from "Extract basic personal information
\* first" on
regex_pipeline(rd, read, calls) ==
    IF "basics" \notin DOMAIN rd
    THEN [rd |-> rd, raised |-> TRUE, calls |-> Append(calls, "_extract_personal_info")]
    ELSE process_sections(
             [rd EXCEPT !.basics = extract_contact_info(
                                       [@ EXCEPT !.name = extract_personal_info(@, read.personal)],
                                       read.contact)],
             read.sections, 1, calls \o <<"_extract_personal_info", "_extract_contact_info">>)

\* _parse_resume_text after _extract_with_transformers has returned t: "if success
\* and self.debug: return", and else the regex pipeline
after_transformers(self, t, read) ==
    IF t.success /\ self.debug
    THEN [rd |-> t.rd, raised |-> FALSE, calls |-> <<"_extract_with_transformers">>]
    ELSE regex_pipeline(t.rd, read, <<"_extract_with_transformers">>)

\* _parse_resume_text; self is the importer, read the reading of the text under
\* self.debug, o the oracle's behaviour.  The attribute transformers_available
\* exists when use_transformers is set
parse_resume_text(self, read, o) ==
    IF self.use_transformers /\ self.transformers_available
    THEN after_transformers(self, extract_with_transformers(self.resume_data,
                                                            read.paragraphs, o), read)
    ELSE regex_pipeline(self.resume_data, read, <<>>)

\* a text as extracted from a file, with the reading of its post-processed form
\* without and with the debug flag
Text(text) ==
    [text |-> text,
     plain |-> reading(post_process_text(text), FALSE),
     debug |-> reading(post_process_text(text), TRUE)]
(***************************************************************************)
(* The LinkedIn export.  A CSV file of the directory is [status, rows],    *)
(* status "missing", "unreadable" (open or the read raises) or "ok"; a row *)
(* is a function from column names to texts.                               *)
(***************************************************************************)
\* row.get(column, "")
get(row, column) == IF column \in DOMAIN row THEN row[column] ELSE <<>>

\* x or "Present"
or_present(x) == IF x # <<>> THEN x ELSE <<"P","r","e","s","e","n","t">>

\* the rows a processor reads: none unless the file opens and reads
rows_of(file) == IF file.status = "ok" THEN file.rows ELSE <<>>

\* resume_data after a processor's "try: ... append ... except Exception: print"
appended(rd, key, items) == append_all(rd, key, items).rd

\* _process_linkedin_profile
process_linkedin_profile(rd, file) ==
    IF rows_of(file) = <<>> \/ "basics" \notin DOMAIN rd THEN rd
    ELSE LET row == rows_of(file)[1]
         IN [rd EXCEPT
               !.basics.name = get(row, "First Name") \o <<" ">> \o get(row, "Last Name"),
               !.basics.label = get(row, "Headline"),
               !.basics.summary = get(row, "Summary"),
               !.basics.location.city = get(row, "City"),
               !.basics.location.region = get(row, "State"),
               !.basics.location.countryCode = get(row, "Country"),
               !.basics.profiles = Append(@, [network |-> <<"L","i","n","k","e","d","I","n">>,
                                              url |-> get(row, "Public Profile Url"),
                                              username |-> get(row, "Vanity Name")])]

\* _process_linkedin_positions
process_linkedin_positions(rd, file) ==
    LET rows == rows_of(file)
    IN appended(rd, "work",
         [k \in 1..Len(rows) |->
            [name |-> get(rows[k], "Company Name"), position |-> get(rows[k], "Title"),
             startDate |-> format_linkedin_date(get(rows[k], "Started On")),
             endDate |-> or_present(format_linkedin_date(get(rows[k], "Finished On"))),
             summary |-> get(rows[k], "Description"), highlights |-> <<>>, url |-> <<>>,
             keywords |-> extract_keywords_from_text(get(rows[k], "Description"))]])

\* [course.strip() for course in text.split(",") if course.strip()]
courses_of(text) ==
    LET parts == split(text, ",")
        stripped == [k \in 1..Len(parts) |-> strip(parts[k])]
    IN SelectSeq(stripped, LAMBDA course : course # <<>>)

\* _process_linkedin_education
process_linkedin_education(rd, file) ==
    LET rows == rows_of(file)
    IN appended(rd, "education",
         [k \in 1..Len(rows) |->
            [institution |-> get(rows[k], "School Name"),
             area |-> get(rows[k], "Field Of Study"),
             studyType |-> get(rows[k], "Degree Name"),
             startDate |-> format_linkedin_date(get(rows[k], "Start Date")),
             endDate |-> or_present(format_linkedin_date(get(rows[k], "End Date"))),
             score |-> <<>>,
             courses |-> courses_of(get(rows[k], "Activities and Societies"))]])

\* _process_linkedin_skills
skill_names(rows) ==
    SelectSeq([k \in 1..Len(rows) |-> get(rows[k], "Name")], LAMBDA n : n # <<>>)
skill_items(skill_categories) ==
    [k \in 1..Len(skill_categories) |->
       [name |-> skill_categories[k].name, level |-> <<>>,
        keywords |-> skill_categories[k].keywords]]
process_linkedin_skills(rd, file) ==
    appended(rd, "skills", skill_items(group_skills(skill_names(rows_of(file)), 1, <<>>)))

\* _process_linkedin_languages
process_linkedin_languages(rd, file) ==
    LET rows == rows_of(file)
    IN appended(rd, "languages",
         [k \in 1..Len(rows) |->
            [language |-> get(rows[k], "Name"), fluency |-> get(rows[k], "Proficiency")]])

\* _process_linkedin_projects
process_linkedin_projects(rd, file) ==
    LET rows == rows_of(file)
    IN appended(rd, "projects",
         [k \in 1..Len(rows) |->
            [name |-> get(rows[k], "Title"), description |-> get(rows[k], "Description"),
             startDate |-> format_linkedin_date(get(rows[k], "Started On")),
             endDate |-> or_present(format_linkedin_date(get(rows[k], "Finished On"))),
             url |-> get(rows[k], "Url"), highlights |-> <<>>,
             keywords |-> extract_keywords_from_text(get(rows[k], "Description"))]])

\* _process_linkedin_certifications
process_linkedin_certifications(rd, file) ==
    LET rows == rows_of(file)
    IN appended(rd, "certificates",
         [k \in 1..Len(rows) |->
            [name |-> get(rows[k], "Name"),
             date |-> format_linkedin_date(get(rows[k], "Started On")),
             issuer |-> get(rows[k], "Authority"), url |-> get(rows[k], "Url"),
             keywords |-> {}]])

\* _process_linkedin_directory: the processors in the order of file_processors
process_linkedin_directory(rd, dir) ==
    process_linkedin_certifications(
      process_linkedin_projects(
        process_linkedin_languages(
          process_linkedin_skills(
            process_linkedin_education(
              process_linkedin_positions(
                process_linkedin_profile(rd, dir.Profile),
                dir.Positions),
              dir.Education),
            dir.Skills),
          dir.Languages),
        dir.Projects),
      dir.Certifications)

(***************************************************************************)
(* Confidence and persistence.  A JSON object is a function from its keys; *)
(* the type of a value (list, object, number, text) follows from its key.  *)
(***************************************************************************)
\* the top-level keys whose value is a list
ListKeys == <<"work", "volunteer", "education", "awards", "certificates", "publications",
              "skills", "languages", "interests", "references", "projects">>

\* the top-level keys whose value is an object
DictKeys == <<"basics", "metadata", "resume_data">>

\* the keys of a number
NumberKeys == {"fields_extracted"}

\* bool(value) of the value stored under a key
truthy(key, value) ==
    IF key = "confidence_score" THEN value.num # 0
    ELSE IF key \in NumberKeys THEN value # 0
    ELSE DOMAIN value # {}

RECURSIVE SumSeq(_)
SumSeq(q) == IF q = <<>> THEN 0 ELSE Head(q) + SumSeq(Tail(q))

\* sum(len(section) for section in resume_data.values() if isinstance(section, list))
total_fields(rd) ==
    SumSeq([k \in 1..Len(ListKeys) |->
              IF ListKeys[k] \in DOMAIN rd THEN Len(rd[ListKeys[k]]) ELSE 0])

\* _count_populated_fields
count_populated_fields(rd) ==
    total_fields(rd)
    + SumSeq([k \in 1..Len(DictKeys) |->
                IF DictKeys[k] \in DOMAIN rd
                THEN Cardinality({f \in DOMAIN rd[DictKeys[k]] : truthy(f, rd[DictKeys[k]][f])})
                ELSE 0])

\* _calculate_confidence with the test made on the populated fields instead of on
\* total_fields
confidence_if_populated(rd) ==
    IF count_populated_fields(rd) > 0
    THEN [num |-> count_populated_fields(rd) * 100,
          den |-> IF total_fields(rd) > 0 THEN total_fields(rd) ELSE 1]
    ELSE [num |-> 0, den |-> 1]

\* _calculate_confidence: the quotient populated * 100 / total as an exact fraction
calculate_confidence(rd) ==
    IF total_fields(rd) > 0
    THEN [num |-> count_populated_fields(rd) * 100, den |-> total_fields(rd)]
    ELSE [num |-> 0, den |-> 1]

\* datetime.now().isoformat()
Now == <<"2","0","2","4","-","0","1","-","0","1","T","0","0",":","0","0",":","0","0">>

\* the object save_to_json serialises
output_data(rd) ==
    [metadata |-> [generated_at |-> Now,
                   confidence_score |-> calculate_confidence(rd),
                   fields_extracted |-> count_populated_fields(rd)],
     resume_data |-> rd]

\* save_to_json: the content of the output file afterwards, and the value returned
save_to_json(rd, old, writable) ==
    IF writable THEN [file |-> <<output_data(rd)>>, ret |-> TRUE]
    ELSE [file |-> old, ret |-> FALSE]

\* load_from_json
load_from_json(self, file) ==
    IF file.kind = "json" /\ file.ok
    THEN [rd |-> file.data, ret |-> TRUE, calls |-> <<>>]
    ELSE [rd |-> self.resume_data, ret |-> FALSE, calls |-> <<>>]

\* import_from_linkedin_export
import_from_linkedin_export(self, file) ==
    IF file.kind = "dir"
    THEN [rd |-> process_linkedin_directory(self.resume_data, file.dir), ret |-> TRUE,
          calls |-> <<"_process_linkedin_directory">>]
    ELSE [rd |-> self.resume_data, ret |-> FALSE, calls |-> <<>>]

\* the tail common to import_from_pdf and import_from_docx: _post_process_text,
\* then _parse_resume_text
parsed(p) == [rd |-> p.rd, ret |-> ~p.raised, calls |-> <<"_post_process_text">> \o p.calls]
parse_extracted(self, extracted, o) ==
    parsed(parse_resume_text(self, IF self.debug THEN extracted.debug ELSE extracted.plain, o))

ShortTextLen == 100

\* extracted_text = None
NoText == [text |-> <<>>]

\* import_from_pdf; libs is the set of importable libraries, file.layer the
\* text pdfminer and PyPDF2 extract, file.image the text OCR extracts
import_from_pdf(self, file, libs, o) ==
    LET failed == [rd |-> self.resume_data, ret |-> FALSE, calls |-> <<>>]
        readable == file.kind = "pdf" /\ file.ok
        text1 == IF "pdfminer" \in libs THEN file.layer ELSE NoText
        poor == text1.text = <<>> \/ Len(strip(text1.text)) < ShortTextLen
        ocr == poor /\ "pytesseract" \in libs
        text2 == IF ocr THEN file.image ELSE text1
        fallback == text2.text = <<>>
        text3 == IF fallback THEN file.layer ELSE text2
    IN IF "pdfminer" \in libs /\ ~readable THEN failed
       ELSE IF ocr /\ ~readable THEN failed
       ELSE IF fallback /\ ("PyPDF2" \notin libs \/ ~readable) THEN failed
       ELSE parse_extracted(self, text3, o)

\* import_from_docx
import_from_docx(self, file, libs, o) ==
    IF "docx" \in libs /\ file.kind = "docx" /\ file.ok
    THEN parse_extracted(self, file.layer, o)
    ELSE [rd |-> self.resume_data, ret |-> FALSE, calls |-> <<>>]

\* the format main works with: the --format argument, or under "auto" the one
\* derived from the input path; "" when none can be determined
input_format(format, file) ==
    IF format # "auto" THEN format
    ELSE IF file.kind = "dir" THEN "linkedin"
    ELSE IF file.ext \in {"pdf", "json", "docx"} THEN file.ext
    ELSE ""

\* the importer call main dispatches to
import_as(fmt, self, file, libs, o) ==
    IF fmt = "linkedin" THEN import_from_linkedin_export(self, file)
    ELSE IF fmt = "pdf" THEN import_from_pdf(self, file, libs, o)
    ELSE IF fmt = "json" THEN load_from_json(self, file)
    ELSE IF fmt = "docx" THEN import_from_docx(self, file, libs, o)
    ELSE [rd |-> self.resume_data, ret |-> FALSE, calls |-> <<>>]

\* main: the importer's record, the output file and the exit code afterwards
\* main after the import has returned r: save_to_json if it succeeded, exit code 1
\* if not
save_imported(r, old, writable) ==
    IF r.ret
    THEN [rd |-> r.rd, file |-> save_to_json(r.rd, old, writable).file, code |-> 0,
          calls |-> r.calls \o <<"save_to_json">>]
    ELSE [rd |-> r.rd, file |-> old, code |-> 1, calls |-> r.calls]

main(self, format, file, old, writable, libs, o) ==
    IF input_format(format, file) = ""
    THEN [rd |-> self.resume_data, file |-> old, code |-> 1, calls |-> <<>>]
    ELSE save_imported(import_as(input_format(format, file), self, file, libs, o),
                       old, writable)

(***************************************************************************)
(* The inputs: documents, LinkedIn export directories, JSON files.         *)
(***************************************************************************)
DocWork == <<"J","a","n","e"," ","D","o","e","\n","j","a","n","e","@","x",".","i","o","\n","\n","E","m","p","l","o","y","m","e","n","t"," ","H","i","s","t","o","r","y","\n","S","e","n","i","o","r"," ","E","n","g","i","n","e","e","r","\n","A","c","m","e"," ","I","n","c",".","\n","J","a","n"," ","2","0","2","0"," ","-"," ","D","e","c"," ","2","0","2","1","\n","-"," ","B","u","i","l","t"," ","t","h","e"," ","p","y","t","h","o","n"," ","a","p","i"," ","o","n"," ","a","w","s">>
DocCurrent == <<"E","m","p","l","o","y","m","e","n","t"," ","H","i","s","t","o","r","y","\n","D","e","v","e","l","o","p","e","r"," ","a","t"," ","I","n","i","t","e","c","h","\n","2","0","1","9"," ","-"," ","C","u","r","r","e","n","t">>
DocPresent == <<"E","m","p","l","o","y","m","e","n","t"," ","H","i","s","t","o","r","y","\n","A","n","a","l","y","s","t","\n","G","l","o","b","e","x"," ","L","L","C","\n","2","0","1","8"," ","-"," ","p","r","e","s","e","n","t">>
DocTwice == <<"L","a","n","g","u","a","g","e","s","\n","E","n","g","l","i","s","h","\n","\n","A","w","a","r","d","s","\n","B","e","s","t"," ","H","a","c","k","\n","\n","L","a","n","g","u","a","g","e","s","\n","F","r","e","n","c","h">>
DocSkills == <<"A","l"," ","R","o","e","\n"," ","S","K","I","L","L","S","\n","S","w","i","f","t",","," ","D","j","a","n","g","o",","," ","a","w","s">>
DocContact == <<"B","o"," ","L","i","\n","b","o","@","y",".","o","r","g"," ","|"," ","5","5","5"," ","1","2","3"," ","4","5","6","7">>
DocUpper == <<"E","D","U","C","A","T","I","O","N","\n","S","t","a","t","e"," ","U","n","i","v","e","r","s","i","t","y","\n","B",".","S","."," ","i","n"," ","P","h","y","s","i","c","s","\n","2","0","1","5"," ","-"," ","2","0","1","9">>

\* a file that is no CSV file of the export, one that cannot be read, one with rows
Missing == [status |-> "missing", rows |-> <<>>]
Unreadable == [status |-> "unreadable", rows |-> <<>>]
Csv(rows) == [status |-> "ok", rows |-> rows]

NoCsv ==
    [Profile |-> Missing, Positions |-> Missing, Education |-> Missing, Skills |-> Missing,
     Languages |-> Missing, Projects |-> Missing, Certifications |-> Missing]

DirFull ==
    [Profile |-> Csv(<<("First Name" :> <<"A","n","n">>) @@ ("Last Name" :> <<"L","e","e">>)
                       @@ ("Headline" :> <<"E","n","g","i","n","e","e","r">>) @@ ("City" :> <<"O","s","l","o">>)>>),
     Positions |-> Csv(<<("Company Name" :> <<"A","c","m","e">>) @@ ("Title" :> <<"E","n","g","i","n","e","e","r">>)
                         @@ ("Started On" :> <<"0","1","/","2","0","1","9">>) @@ ("Finished On" :> <<"0","6","/","1","5","/","2","0","2","1">>)
                         @@ ("Description" :> <<"B","u","i","l","t"," ","p","y","t","h","o","n"," ","s","e","r","v","i","c","e","s"," ","o","n"," ","a","w","s">>),
                         ("Company Name" :> <<"I","n","i","t","e","c","h">>) @@ ("Title" :> <<"L","e","a","d">>)
                         @@ ("Started On" :> <<"7","/","2","0","2","1">>)>>),
     Education |-> Csv(<<("School Name" :> <<"S","t","a","t","e"," ","U","n","i","v","e","r","s","i","t","y">>) @@ ("Degree Name" :> <<"B","S","c">>)
                         @@ ("Start Date" :> <<"2","0","1","2">>) @@ ("End Date" :> <<"2","0","1","6">>)
                         @@ ("Activities and Societies" :> <<"C","h","e","s","s",","," ",","," ","R","o","w","i","n","g">>)>>),
     Skills |-> Csv(<<("Name" :> <<"S","w","i","f","t">>), ("Name" :> <<>>), ("Name" :> <<"K","o","t","l","i","n">>),
                      ("Name" :> <<"D","j","a","n","g","o">>)>>),
     Languages |-> Csv(<<("Name" :> <<"E","n","g","l","i","s","h">>) @@ ("Proficiency" :> <<"N","a","t","i","v","e">>)>>),
     Projects |-> Csv(<<("Title" :> <<"A","t","l","a","s">>) @@ ("Description" :> <<"A"," ","r","e","a","c","t"," ","a","p","p">>)
                        @@ ("Started On" :> <<"0","3","/","2","0","2","0">>)>>),
     Certifications |-> Csv(<<("Name" :> <<"A","W","S"," ","A","r","c","h","i","t","e","c","t">>) @@ ("Authority" :> <<"A","m","a","z","o","n">>)
                              @@ ("Started On" :> <<"0","5","/","2","0","2","2">>)>>)]

\* an export whose Positions.csv holds dates in other notations
DirDates ==
    [NoCsv EXCEPT !.Positions =
        Csv(<<("Company Name" :> <<"G","l","o","b","e","x">>) @@ ("Started On" :> <<"J","a","n"," ","2","0","1","8">>)
              @@ ("Finished On" :> <<"D","e","c"," ","2","0","1","8">>)>>)]

\* an export whose Positions.csv cannot be read
DirBroken == [NoCsv EXCEPT !.Positions = Unreadable, !.Languages =
                 Csv(<<("Name" :> <<"F","r","e","n","c","h">>)>>)]

\* a record with one work entry, as a JSON file may hold it
RecordWithWork ==
    [create_empty_template EXCEPT
        !.basics.name = <<"C","y"," ","N","g">>,
        !.work = <<[name |-> <<"H","o","o","l","i">>, position |-> <<"C","T","O">>, startDate |-> <<"2","0","1","5","-","0","3">>,
                    endDate |-> <<"P","r","e","s","e","n","t">>, summary |-> <<>>, highlights |-> <<>>,
                    url |-> <<>>, keywords |-> {}]>>]

\* the JSON object {}
EmptyObject == <<>>

Pdf(text) == [kind |-> "pdf", ext |-> "pdf", ok |-> TRUE, layer |-> Text(text),
             image |-> Text(text)]
Docx(text) == [kind |-> "docx", ext |-> "docx", ok |-> TRUE, layer |-> Text(text)]
Dir(dir) == [kind |-> "dir", ext |-> "", ok |-> TRUE, dir |-> dir]
Json(data) == [kind |-> "json", ext |-> "json", ok |-> TRUE, data |-> data]

\* the input paths the operations are called with.  ok = FALSE: the content cannot
\* be read as what the extension says; Scan is a PDF of page images, without text
Inputs ==
    [work |-> Pdf(DocWork), current |-> Pdf(DocCurrent), twice |-> Pdf(DocTwice),
     skills |-> Pdf(DocSkills), contact |-> Pdf(DocContact),
     scan |-> [Pdf(<<>>) EXCEPT !.image = Text(DocContact)],
     badpdf |-> [Pdf(<<>>) EXCEPT !.ok = FALSE],
     present |-> Docx(DocPresent), upper |-> Docx(DocUpper),
     baddocx |-> [Docx(<<>>) EXCEPT !.ok = FALSE],
     full |-> Dir(DirFull), dates |-> Dir(DirDates), broken |-> Dir(DirBroken),
     nocsv |-> Dir(NoCsv),
     record |-> Json(RecordWithWork), object |-> Json(EmptyObject),
     saved |-> Json(output_data(create_empty_template)),
     badjson |-> [Json(EmptyObject) EXCEPT !.ok = FALSE],
     notes |-> [kind |-> "text", ext |-> "txt", ok |-> TRUE]]

InputNames == DOMAIN Inputs

\* the libraries an installation may hold
Installations ==
    {{"pdfminer", "pytesseract", "PyPDF2", "docx", "transformers"},
     {"PyPDF2", "docx", "transformers"},
     {"pdfminer", "pytesseract"},
     {}}

\* what the oracle may answer
Oracles ==
    {[import_ok |-> FALSE, ner |-> "none", label |-> "skills", score |-> 0],
     [import_ok |-> TRUE, ner |-> "raises", label |-> "raises", score |-> 0],
     [import_ok |-> TRUE, ner |-> "person", label |-> "work experience", score |-> 60],
     [import_ok |-> TRUE, ner |-> "job", label |-> "work experience", score |-> 90],
     [import_ok |-> TRUE, ner |-> "job", label |-> "education", score |-> 90],
     [import_ok |-> TRUE, ner |-> "none", label |-> "raises", score |-> 0]}

(***************************************************************************)
(* The state machine: one ResumeImporter, the installed libraries and the  *)
(* output file.  last records the operation that led to the state: its     *)
(* name, its input, what it returned and the methods it called.            *)
(***************************************************************************)
MaxOps == 2

VARIABLES resume_data, debug, use_transformers, installed, output, ops, last

vars == <<resume_data, debug, use_transformers, installed, output, ops, last>>

\* __init__: transformers_available is set when use_transformers is, to whether
\* the library can be imported
transformers_available == use_transformers /\ "transformers" \in installed

\* the importer
importer == [resume_data |-> resume_data, debug |-> debug,
             use_transformers |-> use_transformers,
             transformers_available |-> transformers_available]

\* the oracle when the importer does not consult it
Unasked == [import_ok |-> FALSE, ner |-> "none", label |-> "skills", score |-> 0]

OraclesHere == IF transformers_available THEN Oracles ELSE {Unasked}

\* the oracle of an operation that called the methods of calls
Asked(o, calls) ==
    IF \E k \in 1..Len(calls) : calls[k] = "_extract_with_transformers" THEN o ELSE Unasked

Started ==
    [op |-> "__init__", input |-> "", format |-> "", oracle |-> Unasked, ret |-> TRUE,
     code |-> 0, calls |-> <<>>, skill_name |-> <<>>,
     category |-> "", text |-> <<>>, result |-> <<>>, headers |-> <<>>,
     sections |-> <<>>, fallbacks |-> 0, rows |-> <<>>]

Init ==
    /\ resume_data = create_empty_template
    /\ debug \in BOOLEAN
    /\ use_transformers \in BOOLEAN
    /\ installed \in Installations
    /\ output = <<>>
    /\ ops = 0
    /\ last = Started

\* the process runs: main has not returned
Running == ops < MaxOps /\ last.op # "main"

\* a method of the importer was called with an input and returned r
Called(op, name, o, r) ==
    /\ resume_data' = r.rd
    /\ ops' = ops + 1
    /\ last' = [Started EXCEPT !.op = op, !.input = name, !.oracle = Asked(o, r.calls),
                               !.ret = r.ret, !.calls = r.calls]
    /\ UNCHANGED <<debug, use_transformers, installed, output>>

\* the operations; files are the files they may be given, by name
ImportFromPdf(files) ==
    /\ Running
    /\ \E name \in DOMAIN files, o \in OraclesHere :
          Called("import_from_pdf", name, o, import_from_pdf(importer, files[name], installed, o))

ImportFromDocx(files) ==
    /\ Running
    /\ \E name \in DOMAIN files, o \in OraclesHere :
          Called("import_from_docx", name, o,
                 import_from_docx(importer, files[name], installed, o))

ImportFromLinkedin(files) ==
    /\ Running
    /\ \E name \in DOMAIN files :
          Called("import_from_linkedin_export", name, Unasked,
                 import_from_linkedin_export(importer, files[name]))

LoadFromJson(files) ==
    /\ Running
    /\ \E name \in DOMAIN files :
          Called("load_from_json", name, Unasked, load_from_json(importer, files[name]))

\* save_to_json returned r
Saved(r) ==
    /\ output' = r.file
    /\ ops' = ops + 1
    /\ last' = [Started EXCEPT !.op = "save_to_json", !.ret = r.ret]
    /\ UNCHANGED <<resume_data, debug, use_transformers, installed>>

SaveToJson ==
    /\ Running
    /\ \E writable \in BOOLEAN : Saved(save_to_json(resume_data, output, writable))

\* main returned m
Exited(format, name, o, m) ==
    /\ resume_data' = m.rd
    /\ output' = m.file
    /\ ops' = ops + 1
    /\ last' = [Started EXCEPT !.op = "main", !.input = name, !.format = format,
                               !.oracle = Asked(o, m.calls), !.ret = (m.code = 0),
                               !.code = m.code, !.calls = m.calls]
    /\ UNCHANGED <<debug, use_transformers, installed>>

\* main, which makes its own importer: the one of the initial state
Main(files) ==
    /\ Running
    /\ last.op = "__init__"
    /\ \E format \in {"auto", "linkedin", "pdf", "json", "docx"}, name \in DOMAIN files,
          o \in OraclesHere, writable \in BOOLEAN :
          Exited(format, name, o,
                 main(importer, format, files[name], output, writable, installed, o))

\* the files are read once: what an operation makes of a file depends on the file alone
Next ==
    \E files \in {Inputs} :
        \/ ImportFromPdf(files)
        \/ ImportFromDocx(files)
        \/ ImportFromLinkedin(files)
        \/ LoadFromJson(files)
        \/ SaveToJson
        \/ Main(files)

Spec == Init /\ [][Next]_vars

(***************************************************************************)
(* _categorize_skill on its own: the skill names it is called with.        *)
(***************************************************************************)
MaxSkillLen == 3

SkillLetters == {"G", "g", "o", "a", "i", "s"}

RECURSIVE Words(_)
Words(n) == IF n = 0 THEN {<<>>}
            ELSE {<<>>} \cup {Append(w, x) : w \in Words(n - 1), x \in SkillLetters}

SkillNames == (Words(MaxSkillLen) \ {<<>>}) \cup
    {<<"S","w","i","f","t">>,
     <<"K","o","t","l","i","n">>,
     <<"D","j","a","n","g","o">>,
     <<"R","e","a","c","t"," ","N","a","t","i","v","e">>,
     <<"L","e","a","d","e","r","s","h","i","p">>,
     <<"P","o","s","t","g","r","e","S","Q","L">>,
     <<"E","x","c","e","l">>,
     <<"G","o">>,
     <<"A","W","S">>,
     <<"M","a","c","h","i","n","e"," ","L","e","a","r","n","i","n","g">>,
     <<"C","+","+">>,
     <<"N","o","d","e",".","j","s">>}

SkillInit ==
    /\ resume_data = create_empty_template
    /\ debug = FALSE
    /\ use_transformers = FALSE
    /\ installed = {}
    /\ output = <<>>
    /\ ops = 0
    /\ \E skill_name \in SkillNames : last = [Started EXCEPT !.skill_name = skill_name]

CategorizeSkill ==
    /\ last.op = "__init__"
    /\ last' = [last EXCEPT !.op = "_categorize_skill",
                            !.category = categorize_skill(last.skill_name)]
    /\ UNCHANGED <<resume_data, debug, use_transformers, installed, output, ops>>

SkillNext == CategorizeSkill

SkillSpec == SkillInit /\ [][SkillNext]_vars


(***************************************************************************)
(* The private methods on their own, called on a fresh importer that does  *)
(* not use the oracle: _post_process_text on a text, then                  *)
(* _extract_contact_info or _parse_resume_text on what it returned;        *)
(* _extract_skills on a section body; _process_linkedin_positions on a     *)
(* file of one row; save_to_json, and load_from_json of the file it wrote. *)
(* last records the argument, the returned text, and for                   *)
(* _parse_resume_text the header matches, the sections handed to the       *)
(* extractors and the number of times the looser header pattern was tried. *)
(***************************************************************************)
\* texts with a phone number of three digit groups that only white space separates
PhoneGaps == {<<" ">>, <<"\n">>, <<" "," ">>, <<" ","\n">>, <<"\t">>}

PhoneNumbers == {<<<<"5","5","5">>, <<"1","2","3">>, <<"4","5","6","7">>>>, <<<<"0","2","0">>, <<"7","1","8">>, <<"0","0","0","0">>>>}

PhoneCases ==
    {[text |-> before \o n[1] \o gap1 \o n[2] \o gap2 \o n[3] \o after,
      before |-> before, joined |-> n[1] \o <<"-">> \o n[2] \o <<"-">> \o n[3],
      after |-> after] :
        before \in {<<>>, <<"B","o"," ","L","i","\n">>, <<"T","e","l",":"," ">>}, n \in PhoneNumbers,
        gap1 \in PhoneGaps, gap2 \in PhoneGaps, after \in {<<>>, <<"\n","b","o","@","y",".","o","r","g">>}}

PhoneTexts == {c.text : c \in PhoneCases}

\* texts with a word of upper-case letters at the start of the text or after a
\* line break, a space or another character, alone or with a line after it;
\* expected is the text with a blank line before the word where a character
\* other than white space precedes it
HeaderWords == {<<"E","D","U","C","A","T","I","O","N">>, <<"S","K","I","L","L","S">>, <<"P","R","O","J","E","C","T","S">>, <<"N","O","T","E","S">>, <<"H","O","N","O","R","S">>, <<"T","E","A","M">>}

HeaderCases ==
    {[text |-> before \o word \o after, word |-> word, before |-> before,
      expected |-> before
                   \o (IF before # <<>> /\ before[Len(before)] \notin Space /\ Len(word) >= 5
                       THEN <<"\n","\n">> ELSE <<>>)
                   \o word \o after] :
        before \in {<<>>, <<"B","o"," ","L","i","\n">>, <<"B","o"," ","L","i"," ">>, <<"B","o"," ","L","i",".">>, <<"B","o"," ","L","i","\n","\n">>},
        word \in HeaderWords, after \in {<<>>, <<"\n","B",".","S","."," ","i","n"," ","P","h","y","s","i","c","s">>}}

HeaderTexts == {c.text : c \in HeaderCases}

\* section bodies: up to MaxTokens skill tokens, separated by commas or set as
\* bullet lines
MaxTokens == 3

SkillTokens == {<<"p","y","t","h","o","n">>, <<"a","w","s">>, <<"l","e","a","d","e","r","s","h","i","p">>, <<"J","a","v","a">>}

RECURSIVE TokenLists(_)
TokenLists(n) ==
    IF n = 0 THEN {<<>>}
    ELSE {<<>>} \cup {Append(l, t) : l \in TokenLists(n - 1), t \in SkillTokens}

\* the tokens with sep before each, before is dropped from the front
RECURSIVE Joined(_, _)
Joined(tokens, sep) ==
    IF tokens = <<>> THEN <<>> ELSE sep \o Head(tokens) \o Joined(Tail(tokens), sep)

SkillCases ==
    {[text |-> SubSeq(Joined(l, <<","," ">>), 3, Len(Joined(l, <<","," ">>))), tokens |-> l] :
        l \in TokenLists(MaxTokens) \ {<<>>}}
    \cup {[text |-> SubSeq(Joined(l, <<"\n","U+2022"," ">>), 2, Len(Joined(l, <<"\n","U+2022"," ">>))), tokens |-> l] :
        l \in TokenLists(MaxTokens) \ {<<>>}}

SkillBodies == {c.text : c \in SkillCases}

\* documents: contact lines or none, then up to MaxBlocks blocks, each a header
\* line and a body; MY WORK is a header for the looser pattern only, Summary for
\* neither pattern
MaxBlocks == 2

Blocks ==
    {<<"L","a","n","g","u","a","g","e","s","\n","E","n","g","l","i","s","h"," ","-"," ","N","a","t","i","v","e">>,
     <<"A","w","a","r","d","s","\n","B","e","s","t"," ","H","a","c","k">>,
     <<" ","S","K","I","L","L","S","\n","p","y","t","h","o","n",","," ","a","w","s">>,
     <<"E","m","p","l","o","y","m","e","n","t"," ","H","i","s","t","o","r","y","\n","D","e","v","e","l","o","p","e","r"," ","a","t"," ","I","n","i","t","e","c","h","\n","2","0","1","9"," ","-"," ","C","u","r","r","e","n","t">>,
     <<"M","Y"," ","W","O","R","K","\n","A","n","a","l","y","s","t"," ","a","t"," ","G","l","o","b","e","x">>,
     <<"S","u","m","m","a","r","y","\n","W","r","i","t","e","s"," ","c","o","d","e">>}

\* blocks under a volunteer, publications or interests header
BoundaryBlocks ==
    {<<"C","o","m","m","u","n","i","t","y"," ","W","o","r","k","\n","T","u","t","o","r"," ","a","t"," ","L","i","b","r","a","r","y">>,
     <<"V","o","l","u","n","t","e","e","r"," ","W","o","r","k","\n","T","u","t","o","r"," ","a","t"," ","L","i","b","r","a","r","y">>,
     <<"C","o","m","m","u","n","i","t","y"," ","S","e","r","v","i","c","e","\n","T","u","t","o","r"," ","a","t"," ","L","i","b","r","a","r","y">>,
     <<"P","u","b","l","i","c","a","t","i","o","n","s","\n","T","u","t","o","r"," ","a","t"," ","L","i","b","r","a","r","y">>,
     <<"I","n","t","e","r","e","s","t","s","\n","T","u","t","o","r"," ","a","t"," ","L","i","b","r","a","r","y">>}

RECURSIVE BlockLists(_)
BlockLists(n) ==
    IF n = 0 THEN {<<>>}
    ELSE {<<>>} \cup {Append(l, b) : l \in BlockLists(n - 1), b \in Blocks}

\* the document of the specification's example, with a shorter degree line
DocExample == <<"J","a","n","e"," ","D","o","e","\n","j","a","n","e","@","x",".","i","o","\n","\n","E","X","P","E","R","I","E","N","C","E","\n","S","o","f","t","w","a","r","e"," ","E","n","g","i","n","e","e","r"," ","U+2014"," ","A","c","m","e"," ","C","o","r","p","\n","J","a","n"," ","2","0","2","0"," ","-"," ","P","r","e","s","e","n","t","\n","U+2022"," ","B","u","i","l","t"," ","A","P","I","s","\n","\n","E","D","U","C","A","T","I","O","N","\n","M","a","s","t","e","r"," ","o","f"," ","S","c","i","e","n","c","e",","," ","T","e","c","h"," ","U","n","i","v","e","r","s","i","t","y","\n","2","0","1","8"," ","-"," ","2","0","2","0">>

Documents ==
    {before \o SubSeq(Joined(l, <<"\n","\n">>), 3, Len(Joined(l, <<"\n","\n">>))) :
        before \in {<<>>, <<"B","o"," ","L","i","\n","b","o","@","y",".","o","r","g","\n","\n">>}, l \in BlockLists(MaxBlocks)}
    \cup {before \o b : before \in {<<>>, <<"B","o"," ","L","i","\n","b","o","@","y",".","o","r","g","\n","\n">>}, b \in BoundaryBlocks}
    \cup {DocExample}

\* the documents as _parse_resume_text reads them
Readings == [text \in Documents |-> Text(text)]

\* rows of Positions.csv: the start and the end in the notations of an export
StartedOn == {<<"0","1","/","2","0","1","9">>, <<"1","2","/","1","9","9","9">>, <<"7","/","2","0","2","1">>, <<"0","3","/","1","5","/","2","0","2","0">>, <<"J","a","n"," ","2","0","1","8">>, <<>>}

FinishedOn == {<<>>, <<"0","6","/","2","0","2","1">>, <<"0","6","/","1","5","/","2","0","2","1">>, <<"P","r","e","s","e","n","t">>}

PositionRows ==
    {("Company Name" :> <<"A","c","m","e">>) @@ ("Started On" :> s) @@ ("Finished On" :> f) :
        s \in StartedOn, f \in FinishedOn}
    \cup {("Company Name" :> <<"A","c","m","e">>) @@ ("Started On" :> s) : s \in StartedOn}

MethodInit ==
    /\ resume_data = create_empty_template
    /\ debug \in BOOLEAN
    /\ use_transformers = FALSE
    /\ installed = {}
    /\ output = <<>>
    /\ ops = 0
    /\ last = Started

\* text = self._post_process_text(text)
PostProcessText ==
    /\ last.op = "__init__"
    /\ \E text \in PhoneTexts \cup HeaderTexts \cup Documents :
          last' = [Started EXCEPT !.op = "_post_process_text", !.text = text,
                                  !.result = post_process_text(text)]
    /\ ops' = ops + 1
    /\ UNCHANGED <<resume_data, debug, use_transformers, installed, output>>

\* self._extract_contact_info(text) on the text _post_process_text returned
ExtractContactInfo ==
    /\ last.op = "_post_process_text"
    /\ resume_data' = [resume_data EXCEPT
                          !.basics = extract_contact_info(@, contact_info_in(last.result))]
    /\ last' = [last EXCEPT !.op = "_extract_contact_info",
                            !.calls = <<"_extract_contact_info">>]
    /\ ops' = ops + 1
    /\ UNCHANGED <<debug, use_transformers, installed, output>>

\* the header matches: the label, where the match starts and where it ends
header_spans(text, ms) ==
    [k \in 1..Len(ms) |-> [name |-> upper(group(text, ms[k], 1)), a |-> ms[k].a, e |-> ms[k].e]]

\* _parse_resume_text returned p
ParsedText(p) ==
    /\ resume_data' = p.rd
    /\ last' = [last EXCEPT
                   !.op = "_parse_resume_text", !.ret = ~p.raised, !.calls = p.calls,
                   !.headers = header_spans(last.result, section_matches(last.result, debug)),
                   !.sections = sections_of(last.result, debug),
                   !.fallbacks =
                       IF fallback_tried(finditer(SectionRe, last.result, IgnoreCase), debug)
                       THEN 1 ELSE 0]
    /\ ops' = ops + 1
    /\ UNCHANGED <<debug, use_transformers, installed, output>>

\* self._parse_resume_text(text) on the text _post_process_text returned
ParseResumeText(docs) ==
    /\ last.op = "_post_process_text"
    /\ last.text \in DOMAIN docs
    /\ ParsedText(parse_resume_text(importer,
                                    IF debug THEN docs[last.text].debug
                                    ELSE docs[last.text].plain, Unasked))

\* self._extract_skills(text) on a section body
ExtractSkills ==
    /\ last.op = "__init__"
    /\ \E text \in SkillBodies :
          /\ resume_data' = append_all(resume_data, "skills", extract_skills(text)).rd
          /\ last' = [Started EXCEPT !.op = "_extract_skills", !.text = text,
                                     !.calls = <<"_extract_skills">>]
    /\ ops' = ops + 1
    /\ UNCHANGED <<debug, use_transformers, installed, output>>

\* self._process_linkedin_positions(file_path) on a Positions.csv of one row
ProcessLinkedinPositions ==
    /\ last.op = "__init__"
    /\ \E row \in PositionRows :
          /\ resume_data' = process_linkedin_positions(resume_data, Csv(<<row>>))
          /\ last' = [Started EXCEPT !.op = "_process_linkedin_positions", !.rows = <<row>>]
    /\ ops' = ops + 1
    /\ UNCHANGED <<debug, use_transformers, installed, output>>

\* load_from_json of the file save_to_json has just written
LoadFromSaved ==
    /\ last.op = "save_to_json"
    /\ last.ret
    /\ Called("load_from_json", "output", Unasked,
              load_from_json(importer, Json(output[1])))

MethodNext ==
    \E docs \in {Readings} :
        \/ PostProcessText
        \/ ExtractContactInfo
        \/ ParseResumeText(docs)
        \/ ExtractSkills
        \/ ProcessLinkedinPositions
        \/ SaveToJson
        \/ LoadFromSaved

MethodSpec == MethodInit /\ [][MethodNext]_vars
(***************************************************************************)
(* The properties of the specification.                                    *)
(***************************************************************************)
\* the keys of basics the record schema names
BasicsKeys == {"name", "label", "email", "phone", "url", "summary", "location", "profiles"}

\* the keys of basics that hold a text
ScalarKeys == {"name", "label", "image", "email", "phone", "url", "summary"}

\* the last operation called the method m
CalledIn(m) == \E k \in 1..Len(last.calls) : last.calls[k] = m

\* the last operation acquired a text and handed it to _parse_resume_text
Parsed == CalledIn("_post_process_text")

\* the regex pipeline ran: basics extraction, then segmentation and the extractors
RegexRan == CalledIn("_extract_personal_info") /\ CalledIn("_extract_contact_info")

\* the oracle did not do its work: the library could not be imported, or entity
\* recognition or classification raised
OracleFailed(o) == ~o.import_ok \/ o.ner = "raises" \/ o.label = "raises"

\* C1: in every reachable state resume_data holds every key of the record schema:
\* basics with name, label, email, phone, url, summary, location and profiles, and
\* the eleven sequences.
C1_SchemaComplete ==
    /\ "basics" \in DOMAIN resume_data
    /\ BasicsKeys \subseteq DOMAIN resume_data.basics
    /\ \A k \in 1..Len(ListKeys) : ListKeys[k] \in DOMAIN resume_data

\* C2: the confidence _calculate_confidence computes for a reachable record lies in
\* the closed range from 0 to 100.
C2_ConfidenceInRange ==
    LET c == calculate_confidence(resume_data)
    IN c.num >= 0 /\ c.num <= 100 * c.den

\* every top-level sequence of the record is empty
SequencesEmpty(rd) ==
    \A k \in 1..Len(ListKeys) : ListKeys[k] \in DOMAIN rd => rd[ListKeys[k]] = <<>>

\* every scalar field under basics is the empty string
BasicsScalarsEmpty(rd) ==
    "basics" \in DOMAIN rd =>
        \A f \in ScalarKeys \cap DOMAIN rd.basics : rd.basics[f] = <<>>

\* C3 as the specification states it: the confidence is 0 if and only if every
\* top-level sequence is empty and every scalar field under basics is empty.
C3_ZeroIffNothingPopulated ==
    (calculate_confidence(resume_data).num = 0)
        <=> (SequencesEmpty(resume_data) /\ BasicsScalarsEmpty(resume_data))

\* C3 as the code has it: the confidence is 0 if and only if every top-level sequence
\* of the record is empty, whatever the scalar fields under basics hold; a record
\* with a sequence element has a confidence greater than 0.
C3_ZeroIffSequencesEmpty ==
    (calculate_confidence(resume_data).num = 0) <=> SequencesEmpty(resume_data)

\* an import has filled scalar fields of basics and no sequence, and the confidence
\* is 0
C3_BasicsOnly ==
    /\ last.op \in {"import_from_pdf", "import_from_docx", "import_from_linkedin_export"}
    /\ last.ret
    /\ SequencesEmpty(resume_data)
    /\ ~BasicsScalarsEmpty(resume_data)
    /\ calculate_confidence(resume_data).num = 0

\* C4: when oracle enrichment is enabled and the oracle fails (the library is
\* unavailable, or entity recognition or classification raises), _parse_resume_text
\* still runs the regex pipeline on the document and the import is not aborted,
\* whatever the debug flag.  Stated for the first operation on an importer, whose
\* record is the empty template.
C4_FallbackToRegex ==
    (/\ ops = 1
     /\ Parsed
     /\ use_transformers
     /\ \/ ~transformers_available
        \/ CalledIn("_extract_with_transformers") /\ OracleFailed(last.oracle))
    => (RegexRan /\ last.ret)

\* C5: when the enabled oracle succeeds on a document, the regex pipeline is not run
\* for it: neither basics extraction nor any section extractor, whatever the debug
\* flag.
C5_OracleOrRegex ==
    (/\ ops = 1
     /\ Parsed
     /\ CalledIn("_extract_with_transformers")
     /\ ~OracleFailed(last.oracle))
    => \A k \in 1..Len(last.calls) :
          last.calls[k] \in {"_post_process_text", "_extract_with_transformers"}

\* the method that acquires the input of the last operation; "" when main cannot
\* tell the format
AcquiredBy ==
    IF last.op # "main" THEN last.op
    ELSE LET fmt == input_format(last.format, Inputs[last.input])
         IN CASE fmt = "pdf" -> "import_from_pdf"
              [] fmt = "docx" -> "import_from_docx"
              [] fmt = "linkedin" -> "import_from_linkedin_export"
              [] fmt = "json" -> "load_from_json"
              [] OTHER -> ""

\* the source cannot be acquired: the format is not supported, the file is not a
\* readable file of the format, or a CSV file of the directory cannot be read
AcquisitionFails(method, file) ==
    CASE method = "" -> TRUE
      [] method = "import_from_pdf" -> ~(file.kind = "pdf" /\ file.ok)
      [] method = "import_from_docx" -> ~(file.kind = "docx" /\ file.ok)
      [] method = "import_from_linkedin_export" ->
            \/ file.kind # "dir"
            \/ \E f \in DOMAIN file.dir : file.dir[f].status = "unreadable"
      [] OTHER -> FALSE

\* C6: when the acquisition of a source fails in the PDF, DOCX or LinkedIn path, the
\* import reports failure to its caller, and main writes no output: it does not
\* reach save_to_json and exits with 1.
C6_AcquisitionErrorIsFatal ==
    (/\ last.op \in {"import_from_pdf", "import_from_docx", "import_from_linkedin_export",
                     "main"}
     /\ AcquisitionFails(AcquiredBy, Inputs[last.input]))
    => /\ ~last.ret
       /\ last.op = "main" => (last.code = 1 /\ ~CalledIn("save_to_json") /\ output = <<>>)

\* the keys the section extractors append to
ExtractorKeys == {"work", "education", "skills", "projects", "certificates", "languages"}

\* what the extractor of key makes of the bodies under the headers of a text, each
\* occurrence of a header taken as a section of its own, in the order of the text
RECURSIVE OccurrenceItems(_, _, _, _)
OccurrenceItems(text, ms, i, key) ==
    IF i > Len(ms) THEN <<>>
    ELSE LET label == upper(group(text, ms[i], 1))
             upto == IF i < Len(ms) THEN ms[i + 1].a ELSE Len(text) + 1
             body == strip(Slice(text, ms[i].e, upto))
         IN (IF extractor_of(label) = key THEN <<>> \o extract(key, body) ELSE <<>>)
            \o OccurrenceItems(text, ms, i + 1, key)

\* a header label occurs twice in the text
LabelTwice(text, ms) ==
    \E i, j \in 1..Len(ms) :
        i < j /\ upper(group(text, ms[i], 1)) = upper(group(text, ms[j], 1))

\* for a text: whether a label occurs twice in it, and the items by occurrence
ByOccurrence(text, dbg) ==
    LET processed == post_process_text(text)
        ms == section_matches(processed, dbg)
    IN [twice |-> LabelTwice(processed, ms),
        work |-> OccurrenceItems(processed, ms, 1, "work"),
        education |-> OccurrenceItems(processed, ms, 1, "education"),
        skills |-> OccurrenceItems(processed, ms, 1, "skills"),
        projects |-> OccurrenceItems(processed, ms, 1, "projects"),
        certificates |-> OccurrenceItems(processed, ms, 1, "certificates"),
        languages |-> OccurrenceItems(processed, ms, 1, "languages")]

\* the inputs whose text is the same for every extraction library, with their
\* items by occurrence, without and with the debug flag
Occurrences ==
    [work |-> <<ByOccurrence(DocWork, FALSE), ByOccurrence(DocWork, TRUE)>>,
     current |-> <<ByOccurrence(DocCurrent, FALSE), ByOccurrence(DocCurrent, TRUE)>>,
     twice |-> <<ByOccurrence(DocTwice, FALSE), ByOccurrence(DocTwice, TRUE)>>,
     skills |-> <<ByOccurrence(DocSkills, FALSE), ByOccurrence(DocSkills, TRUE)>>,
     contact |-> <<ByOccurrence(DocContact, FALSE), ByOccurrence(DocContact, TRUE)>>,
     present |-> <<ByOccurrence(DocPresent, FALSE), ByOccurrence(DocPresent, TRUE)>>,
     upper |-> <<ByOccurrence(DocUpper, FALSE), ByOccurrence(DocUpper, TRUE)>>]

\* the first operation on the importer parsed a document with the regex pipeline
\* alone, and returned normally
RegexOnly == ops = 1 /\ Parsed /\ last.ret /\ ~CalledIn("_extract_with_transformers")

\* C7: when a header label occurs twice in a document, _parse_resume_text treats the
\* two occurrences as two sections, routes the body of each to the same extractor,
\* and the record holds the concatenation of the outputs: no body is dropped.
C7_RepeatedHeaderConcatenated ==
    (RegexOnly /\ last.input \in DOMAIN Occurrences) =>
        LET expected == Occurrences[last.input][IF debug THEN 2 ELSE 1]
        IN expected.twice => \A key \in ExtractorKeys : resume_data[key] = expected[key]

\* a text of the form YYYY-MM
IsYearMonth(d) ==
    /\ Len(d) = 7
    /\ d[5] = "-"
    /\ \A i \in {1, 2, 3, 4, 6, 7} : d[i] \in Digit

\* C8: in every reachable record the endDate of every work entry is the empty
\* string, a YYYY-MM token or the literal "Present".
C8_WorkEndDateForm ==
    "work" \in DOMAIN resume_data =>
        \A k \in 1..Len(resume_data.work) :
            LET endDate == resume_data.work[k].endDate
            IN endDate = <<>> \/ endDate = <<"P","r","e","s","e","n","t">> \/ IsYearMonth(endDate)

\* the work, education and project entries of the record
DatedEntries == resume_data.work \o resume_data.education \o resume_data.projects

\* C9: in the work, education and project extractors a matched date range whose end
\* token is Present or Current is stored with the endDate "Present", and a matched
\* range never yields an empty endDate.  Stated on the record after the regex
\* pipeline has filled the empty template: there an entry has a startDate exactly
\* when a range was matched in it, and its endDate is what was stored for the end
\* token.
C9_PresentIsLiteral ==
    RegexOnly =>
        \A k \in 1..Len(DatedEntries) :
            LET entry == DatedEntries[k]
            IN /\ lower(entry.endDate) \in {<<"p","r","e","s","e","n","t">>, <<"c","u","r","r","e","n","t">>}
                     => entry.endDate = <<"P","r","e","s","e","n","t">>
               /\ entry.startDate # <<>> => entry.endDate # <<>>

\* a keyword occurs in a skill name, the case of the letters ignored
OccursIn(keyword, skill_name) ==
    \E i \in 0..(Len(skill_name) - Len(keyword)) :
        \A j \in 1..Len(keyword) : ToLower(skill_name[i + j]) = ToLower(keyword[j])

\* the categories one of whose keywords occurs in the skill name
Hits(skill_name) ==
    {c \in 1..Len(categories) :
        \E k \in 1..Len(categories[c].keywords) :
            OccursIn(categories[c].keywords[k], skill_name)}

\* C10: _categorize_skill maps every non-empty skill name to exactly one category:
\* the first in the declared order (Programming Languages, Web Development, Data
\* Science, DevOps & Cloud, Databases, Mobile Development, Soft Skills) one of whose
\* keywords is a substring of the name, the case ignored, and "Other Skills" when
\* no keyword of any category is.
C10_FirstCategoryWins ==
    /\ [c \in 1..Len(categories) |-> categories[c].category]
          = <<"Programming Languages", "Web Development", "Data Science", "DevOps & Cloud",
              "Databases", "Mobile Development", "Soft Skills">>
    /\ last.op = "_categorize_skill" =>
          /\ last.skill_name # <<>>
          /\ IF Hits(last.skill_name) = {} THEN last.category = "Other Skills"
             ELSE \E c \in Hits(last.skill_name) :
                     /\ \A d \in Hits(last.skill_name) : c <= d
                     /\ last.category = categories[c].category

\* a name with a capital letter and keywords of two categories has been categorized
C10_TwoCategories ==
    /\ last.op = "_categorize_skill"
    /\ Cardinality(Hits(last.skill_name)) >= 2
    /\ last.skill_name # lower(last.skill_name)
    /\ last.category = "Programming Languages"


(***************************************************************************)
(* Properties of the private methods and of the LinkedIn import.           *)
(***************************************************************************)
\* _parse_resume_text has just run on the text _post_process_text returned
ParsedAlone == last.op = "_parse_resume_text" /\ last.ret

\* C11: for a document in which no section header is recognised, the regex
\* pipeline on a fresh importer leaves every top-level sequence of the record
\* empty and the confidence is 0, whatever contact details the document has
C11_NoHeaderEmptyRecord ==
    (ParsedAlone /\ last.headers = <<>>)
        => /\ SequencesEmpty(resume_data)
           /\ calculate_confidence(resume_data).num = 0

\* a document with an e-mail address and no recognised header has been parsed,
\* with the debug flag set so that the looser pattern was tried as well
C11_Witness ==
    /\ ParsedAlone /\ last.headers = <<>> /\ debug
    /\ resume_data.basics.email # <<>>
    /\ Len(last.text) > Len(<<"B","o"," ","L","i","\n","b","o","@","y",".","o","r","g","\n","\n">>)

\* C12: the free-text pipeline recognises the bare lines EXPERIENCE and EDUCATION
\* as the work and the education header: the document with contact lines, one job
\* paragraph under EXPERIENCE and one degree paragraph under EDUCATION ends with
\* exactly one work entry and exactly one education entry
C12_ExampleSegmented ==
    (ParsedAlone /\ last.text = DocExample)
        => /\ Len(resume_data.work) = 1
           /\ Len(resume_data.education) = 1

\* a date of the form MM/YYYY
IsMonthYear(s) ==
    /\ Len(s) = 7
    /\ s[3] = "/"
    /\ \A k \in {1, 2, 4, 5, 6, 7} : s[k] \in {"0", "1", "2", "3", "4", "5", "6", "7", "8", "9"}

\* the row _process_linkedin_positions has just read and the work entry it appended
PositionRead == last.op = "_process_linkedin_positions"
PositionRow == last.rows[1]
PositionEntry == resume_data.work[Len(resume_data.work)]

\* C13: for every LinkedIn position row, a "Started On" value of the form MM/YYYY
\* is stored as startDate YYYY-MM, and an empty "Finished On" value is stored as
\* endDate "Present"
C13_LinkedinDates ==
    PositionRead =>
        /\ Len(resume_data.work) = 1
        /\ IsMonthYear(get(PositionRow, "Started On"))
              => PositionEntry.startDate =
                     SubSeq(PositionRow["Started On"], 4, 7) \o <<"-">>
                         \o SubSeq(PositionRow["Started On"], 1, 2)
        /\ get(PositionRow, "Finished On") = <<>> => PositionEntry.endDate = <<"P","r","e","s","e","n","t">>

\* the row {"Started On": "01/2019", "Finished On": ""} has been read and stored
\* with startDate 2019-01 and endDate Present
C13_Witness ==
    /\ PositionRead
    /\ "Finished On" \in DOMAIN PositionRow
    /\ PositionRow["Started On"] = <<"0","1","/","2","0","1","9">> /\ PositionRow["Finished On"] = <<>>
    /\ PositionEntry.startDate = <<"2","0","1","9","-","0","1">> /\ PositionEntry.endDate = <<"P","r","e","s","e","n","t">>

\* the text with a phone number that _post_process_text was given
PhoneCase == CHOOSE c \in PhoneCases : c.text = last.text

\* C14: a phone number whose digit groups of length 3, 3 and 4 are separated only
\* by white space or line breaks is rewritten by _post_process_text into the
\* hyphen-joined form, the rest of the text is kept, and _extract_contact_info on
\* the normalized text stores the hyphen-joined number as basics.phone
C14_PhoneRepaired ==
    (last.op \in {"_post_process_text", "_extract_contact_info"} /\ last.text \in PhoneTexts)
        => /\ last.result = PhoneCase.before \o PhoneCase.joined \o PhoneCase.after
           /\ last.op = "_extract_contact_info"
                 => resume_data.basics.phone = PhoneCase.joined

\* the number of the example, broken over three lines, has been repaired and stored
C14_Witness ==
    /\ last.op = "_extract_contact_info"
    /\ Contains(last.text, <<"5","5","5","\n","1","2","3","\n","4","5","6","7">>)
    /\ resume_data.basics.phone = <<"5","5","5","-","1","2","3","-","4","5","6","7">>

\* the section body _extract_skills was given, with its tokens
SkillCase == CHOOSE c \in SkillCases : c.text = last.text

\* the tokens of a list that fall into a category, in the order of the list
TokensOf(tokens, category) ==
    SelectSeq(tokens, LAMBDA t : categorize_skill(t) = category)

\* a list without the later occurrences of its elements
RECURSIVE Once(_)
Once(tokens) ==
    IF tokens = <<>> THEN <<>>
    ELSE LET front == SubSeq(tokens, 1, Len(tokens) - 1)
         IN IF \E k \in 1..Len(front) : front[k] = tokens[Len(tokens)]
            THEN Once(front) ELSE Append(Once(front), tokens[Len(tokens)])

\* C15: _extract_skills on a section body appends exactly one skills entry per
\* category that received a token, and the keywords of an entry are the tokens
\* of its category, each token once, in the order of first appearance
C15_KeywordsOnce ==
    last.op = "_extract_skills" =>
        /\ \A t \in Elements(SkillCase.tokens) :
              \E k \in 1..Len(resume_data.skills) :
                  resume_data.skills[k].name = categorize_skill(t)
        /\ \A k, j \in 1..Len(resume_data.skills) :
              resume_data.skills[k].name = resume_data.skills[j].name => k = j
        /\ \A k \in 1..Len(resume_data.skills) :
              resume_data.skills[k].keywords =
                  Once(TokensOf(SkillCase.tokens, resume_data.skills[k].name))


\* C16: every language entry of a reachable record has a non-empty fluency (it is
\* "Fluent" when no proficiency was detected), whether the entry comes from the
\* regex languages extractor or from the LinkedIn languages import
C16_FluencySet ==
    "languages" \in DOMAIN resume_data =>
        \A k \in 1..Len(resume_data.languages) : resume_data.languages[k].fluency # <<>>

\* s is a prefix of t
IsPrefix(s, t) == Len(s) <= Len(t) /\ SubSeq(t, 1, Len(s)) = s

\* every top-level sequence of the record before the step is a prefix of the same
\* sequence after it
SequencesKept ==
    \A k \in 1..Len(ListKeys) :
        ListKeys[k] \in DOMAIN resume_data
            => /\ ListKeys[k] \in DOMAIN resume_data'
               /\ IsPrefix(resume_data[ListKeys[k]], resume_data'[ListKeys[k]])

\* C17 as stated: every operation on the importer leaves the entries of every
\* top-level sequence in place and unchanged, so that each sequence of an earlier
\* state is a prefix of the same sequence in every later state
C17_EntriesStay == [][SequencesKept]_vars

\* the step is a load_from_json, called directly or by main for the format json
Loads ==
    \/ last'.op = "load_from_json"
    \/ last'.op = "main" /\ input_format(last'.format, Inputs[last'.input]) = "json"

\* C17, amended: every operation on the importer other than load_from_json, which
\* replaces the record by the one of the file, leaves the entries of every
\* top-level sequence in place and unchanged
C17_EntriesStayUnlessLoaded == [][~Loads => SequencesKept]_vars

\* a second import has appended a work entry after the one of the first import
C17_Witness ==
    /\ ops = 2
    /\ last.op \in {"import_from_pdf", "import_from_docx", "import_from_linkedin_export"}
    /\ last.ret
    /\ "work" \in DOMAIN resume_data
    /\ Len(resume_data.work) >= 2

\* the formats of the import operations
ImportFormat ==
    [import_from_pdf |-> "pdf", import_from_docx |-> "docx",
     import_from_linkedin_export |-> "linkedin"]

\* the record the last import builds for its document on an importer of the same
\* settings that has imported nothing before
RecordOfDocument ==
    import_as(ImportFormat[last.op], [importer EXCEPT !.resume_data = create_empty_template],
              Inputs[last.input], installed, last.oracle).rd

\* C18: each import starts from an empty record: the record an import leaves is
\* the one built for its document alone, whether or not another document was
\* imported before it on the same importer
C18_ImportStartsEmpty ==
    (last.op \in DOMAIN ImportFormat /\ last.ret) => resume_data = RecordOfDocument

\* the combined header pattern found no header in the text _parse_resume_text was given
NoStandardHeader == finditer(SectionRe, last.result, IgnoreCase) = <<>>

\* C19: when the combined header pattern finds no section header,
\* _parse_resume_text tries the looser header pattern exactly once, for every
\* setting of the debug flag; it never tries it when a standard header was found
C19_FallbackTriedOnce ==
    last.op = "_parse_resume_text" =>
        last.fallbacks = IF NoStandardHeader THEN 1 ELSE 0

\* the text between header match i and the next header match, or the end of the
\* text after the last one, white space trimmed
BodyAfter(i) ==
    strip(Slice(last.result, last.headers[i].e,
                IF i < Len(last.headers) THEN last.headers[i + 1].a
                ELSE Len(last.result) + 1))

\* C20: for header matches at increasing positions of the document, the body
\* handed to the extractors for section i is the trimmed text from the end of
\* match i to the start of match i+1, to the end of the document for the last
\* match: every match has its section, so that no text after the first header is
\* left out
C20_BodiesBetweenHeaders ==
    last.op = "_parse_resume_text" =>
        /\ Len(last.sections) = Len(last.headers)
        /\ \A i \in 1..Len(last.headers) :
              /\ last.sections[i].name = last.headers[i].name
              /\ last.sections[i].content = BodyAfter(i)

(***************************************************************************)
(* Properties of header isolation, of the highlights, of saving and        *)
(* loading, and of the sections without extractor.                         *)
(***************************************************************************)
\* the text with an upper-case word that _post_process_text was given
HeaderCase == CHOOSE c \in HeaderCases : c.text = last.text

\* C21: header isolation in _post_process_text changes the text only by inserting
\* a blank line in front of a run of 5 or more upper-case letters that follows a
\* character other than white space; the letters of the run stay contiguous, and
\* an upper-case word that begins a line or the text comes out unchanged
C21_HeaderIsolated ==
    (last.op = "_post_process_text" /\ last.text \in HeaderTexts)
        => /\ last.result = HeaderCase.expected
           /\ Contains(last.result, HeaderCase.word)

\* the bullet markers
BulletMarkers == {Bullet, BlackCircle, "-", "*"}

\* the texts of the lines of a description that begin with a bullet marker, in
\* the order of the description
BulletTexts(lines) ==
    LET marked == SelectSeq(lines, LAMBDA line : lstrip(line) # <<>>
                                                  /\ Head(lstrip(line)) \in BulletMarkers)
        texts == [k \in 1..Len(marked) |-> strip(Tail(lstrip(marked[k])))]
    IN SelectSeq(texts, LAMBDA t : t # <<>>)

\* C22: the highlights of a work entry the regex extractor appends are exactly
\* the texts of the lines of its description that begin with a bullet marker, in
\* document order; a line that does not begin with a marker, such as a date
\* range with a hyphen, contributes no highlight
C22_HighlightsAreBulletLines ==
    RegexOnly =>
        \A k \in 1..Len(resume_data.work) :
            resume_data.work[k].highlights
                = BulletTexts(split(resume_data.work[k].summary, "\n"))

\* load_from_json has just read the file save_to_json wrote
LoadedSaved == last.op = "load_from_json" /\ last.input = "output"

\* C23: save followed by load is a round trip: after save_to_json has written the
\* record to a file, load_from_json of that file succeeds and leaves resume_data
\* equal to the record that was saved, with every schema key at the top level
C23_SaveLoadRoundTrip ==
    LoadedSaved =>
        /\ last.ret
        /\ resume_data = output[1].resume_data
        /\ "basics" \in DOMAIN resume_data
        /\ \A k \in 1..Len(ListKeys) : ListKeys[k] \in DOMAIN resume_data

\* the labels of volunteer, publications, awards and interests headers
BoundaryLabels ==
    {<<"C","O","M","M","U","N","I","T","Y"," ","W","O","R","K">>, <<"V","O","L","U","N","T","E","E","R"," ","W","O","R","K">>, <<"C","O","M","M","U","N","I","T","Y"," ","S","E","R","V","I","C","E">>, <<"P","U","B","L","I","C","A","T","I","O","N","S">>,
     <<"I","N","T","E","R","E","S","T","S">>, <<"A","W","A","R","D","S">>}

\* C24: a section introduced by a volunteer, publications, awards or interests
\* header is a section boundary only: its body is passed to no extractor and adds
\* no entry to work, education, skills, projects, certificates or languages
C24_BoundaryOnly ==
    (ParsedAlone /\ last.headers # <<>>
       /\ \A k \in 1..Len(last.headers) : last.headers[k].name \in BoundaryLabels)
        => /\ \A k \in 1..Len(last.calls) :
                 last.calls[k] \in {"_extract_personal_info", "_extract_contact_info"}
           /\ \A key \in ExtractorKeys : resume_data[key] = <<>>
====
